---------------------------- MODULE Spec2Model ----------------------------
(***************************************************************************)
(* Verification model of the personal-news curation and summarization      *)
(* pipeline: NewsFetcher (src/news/fetchers.py), ContentFilter             *)
(* (src/news/filters.py), NewsSummarizer (src/ai/summarizer.py) and the    *)
(* digest run of NewsScheduler (src/scheduler.py).                         *)
(*                                                                         *)
(* Text is a sequence of one-character strings.  Scores (relevance,        *)
(* importance, thresholds) are exact multiples of 1/40: the float 1.0 is   *)
(* the integer One, 0.6 is 24, 0.3 is 12, 0.2 is 8 and 0.1 is 4.           *)
(***************************************************************************)
EXTENDS Integers, Sequences, FiniteSets, TLC

VARIABLES
    \* NewsFetcher and its adapters
    apc,             \* "new", "constructed", then "returned" after fetch_all_articles
    fetcher_keys,    \* the key arguments of NewsFetcher.__init__
    adapters_built,  \* the adapter attributes that hold an object
    requested,       \* the adapters that sent a request or read a feed
    raw_records,     \* per adapter: the records its source answered with
    adapter_result,  \* per adapter: the list its fetch_articles returned
    \* NewsScheduler.generate_daily_digest
    digest_pc,    \* "idle" between runs, "summarizing" while a run awaits
                  \* summarize_articles
    digest_runs,  \* how many runs have started
    config,       \* self.config: topics and the content settings
    run,          \* what the latest run did: see NoRun
    \* NewsSummarizer.group_summaries_by_category
    gpc,       \* "idle", then "returned"
    group_in,  \* the summaries argument
    grouped,   \* the dict returned: a function from category labels to lists
    \* fetch_all_articles followed by filter_articles, run twice
    ppc,            \* "idle", "once" after the first run, "twice" after the second
    arrival,        \* the merged adapter results of the first run, in arrival order
    arrival_again,  \* the same articles as the second run received them
    pipe_topics,    \* the topics of both runs
    curated,        \* what the first run's filter_articles returned
    curated_again,  \* what the second run's filter_articles returned
    \* NewsSummarizer
    spc,             \* "new", "config_error", "ready", "running", "returned"
    api_keys,        \* the three key arguments of NewsSummarizer.__init__
    configured,      \* the backends whose summarizer attribute is not None
    sum_articles,    \* the articles argument of summarize_articles
    max_concurrent,  \* the max_concurrent argument
    semaphore,       \* the value of the asyncio.Semaphore
    task_pc,         \* per summarize_single task: "waiting" for the semaphore,
                     \* the backend whose API call it awaits, or "done"
    attempts,        \* per task: the backend calls completed so far, each with
                     \* the backend, what its API call produced, and whether
                     \* the backend's summarize_article raised
    task_result,     \* per task: what it gave to asyncio.gather (<<>> until then)
    summaries,       \* the list summarize_articles returned
    \* ContentFilter.deduplicate_by_content
    dpc,        \* "idle", then "returned"
    dedup_in,   \* the articles argument
    dedup_out,  \* the list returned
    \* ContentFilter
    min_relevance_score,  \* self.min_relevance_score
    seen_urls,            \* self.seen_urls
    seen_titles,          \* self.seen_titles
    filter_calls,         \* how many filter_articles calls the filter has served
    call_articles,        \* the articles argument of the latest call
    call_topics,          \* the topics argument of the latest call
    call_result,          \* the list the latest call returned
    repeated,             \* the latest call was given the previous call's result
    \* NewsFetcher.fetch_all_articles
    fpc,              \* "gather" while the adapter tasks run, then "returned"
    guardian_result,  \* what the Guardian task gave to asyncio.gather
    rss_result,       \* what the RSS task gave to asyncio.gather
    all_articles,     \* the merged list handed to the per-source cap
    fetched           \* the list fetch_all_articles returned

fetchVars == <<fpc, guardian_result, rss_result, all_articles, fetched>>

filterVars == <<min_relevance_score, seen_urls, seen_titles, filter_calls,
                call_articles, call_topics, call_result, repeated>>

dedupVars == <<dpc, dedup_in, dedup_out>>

sumVars == <<spc, api_keys, configured, sum_articles, max_concurrent, semaphore, task_pc,
             attempts, task_result, summaries>>

pipeVars == <<ppc, arrival, arrival_again, pipe_topics, curated, curated_again>>

groupVars == <<gpc, group_in, grouped>>

digestVars == <<digest_pc, digest_runs, config, run>>

adapterVars == <<apc, fetcher_keys, adapters_built, requested, raw_records,
                 adapter_result>>

vars == <<fetchVars, filterVars, dedupVars, sumVars, pipeVars, groupVars, digestVars, adapterVars>>

-----------------------------------------------------------------------------
(* Text helpers: str.lower, str.strip, str.split, substring search, re \b  *)

UpperCase == <<"A","B","C","D","E","F","G","H","I","J","K","L","M",
               "N","O","P","Q","R","S","T","U","V","W","X","Y","Z">>
LowerCase == <<"a","b","c","d","e","f","g","h","i","j","k","l","m",
               "n","o","p","q","r","s","t","u","v","w","x","y","z">>
Digits == {"0","1","2","3","4","5","6","7","8","9"}

\* str(i) for a one-digit i >= 1
DigitChar == <<"1","2","3","4","5","6","7","8","9">>

Range(s) == {s[i] : i \in DOMAIN s}

LowerChar(c) ==
    IF \E i \in DOMAIN UpperCase : UpperCase[i] = c
    THEN LowerCase[CHOOSE i \in DOMAIN UpperCase : UpperCase[i] = c]
    ELSE c

\* str.lower()
Lower(s) == [i \in DOMAIN s |-> LowerChar(s[i])]

IsSpace(c) == c \in {" ", "\t", "\n"}

\* the class \w of the re module
IsWordChar(c) == c \in Range(LowerCase) \cup Range(UpperCase) \cup Digits \cup {"_"}

\* s[lo..hi] as a sequence (empty when lo > hi)
Slice(s, lo, hi) == [i \in 1..(IF hi >= lo THEN hi - lo + 1 ELSE 0) |-> s[lo + i - 1]]

\* str.strip()
Strip(s) ==
    LET keep == {i \in DOMAIN s : ~IsSpace(s[i])}
    IN  IF keep = {} THEN <<>>
        ELSE Slice(s, CHOOSE i \in keep : \A j \in keep : i <= j,
                      CHOOSE i \in keep : \A j \in keep : i >= j)

\* the positions at which w occurs in s
Occurrences(w, s) ==
    {p \in 1..(Len(s) - Len(w) + 1) : \A k \in 1..Len(w) : s[p + k - 1] = w[k]}

\* w in s
Contains(w, s) == Len(w) = 0 \/ Occurrences(w, s) # {}

\* re: \b holds just before position p of s
WordBoundaryAt(s, p) ==
    LET before == p > 1 /\ IsWordChar(s[p - 1])
        after  == p <= Len(s) /\ IsWordChar(s[p])
    IN  before # after

\* re.search(rf"\b{re.escape(word)}\w*", text)
PrefixPatternMatches(w, s) ==
    \E p \in 1..(Len(s) + 1) :
        /\ WordBoundaryAt(s, p)
        /\ (Len(w) = 0 \/ p \in Occurrences(w, s))

RECURSIVE SplitFrom(_, _)
\* str.split(): the maximal runs of non-space characters from position i on
SplitFrom(s, i) ==
    IF i > Len(s) THEN <<>>
    ELSE IF IsSpace(s[i]) THEN SplitFrom(s, i + 1)
    ELSE LET stops == {j \in i..Len(s) : IsSpace(s[j])}
             end   == IF stops = {} THEN Len(s) + 1
                      ELSE CHOOSE j \in stops : \A k \in stops : j <= k
         IN  <<Slice(s, i, end - 1)>> \o SplitFrom(s, end)

Split(s) == SplitFrom(s, 1)

-----------------------------------------------------------------------------
(* difflib.SequenceMatcher(None, a, b).ratio() for sequences shorter than  *)
(* 200 elements (no autojunk): the longest matching block, leftmost in a   *)
(* and then leftmost in b, is taken, and the pieces to its left and to its *)
(* right are matched recursively.                                          *)

\* the length of the common run of a from i and b from j, within the windows
RECURSIVE RunLen(_, _, _, _, _, _)
RunLen(a, i, ahi, b, j, bhi) ==
    IF i > ahi \/ j > bhi \/ a[i] # b[j] THEN 0
    ELSE 1 + RunLen(a, i + 1, ahi, b, j + 1, bhi)

\* find_longest_match over a[alo..ahi], b[blo..bhi] (1-based, inclusive):
\* <<i, j, k>> with k maximal, then i minimal, then j minimal
FindLongestMatch(a, alo, ahi, b, blo, bhi) ==
    LET cand == {p \in (alo..ahi) \X (blo..bhi) : a[p[1]] = b[p[2]]}
    IN  IF cand = {} THEN <<alo, blo, 0>>
        ELSE LET lens == [p \in cand |-> RunLen(a, p[1], ahi, b, p[2], bhi)]
                 k    == CHOOSE n \in {lens[p] : p \in cand} : \A p \in cand : lens[p] <= n
                 top  == {p \in cand : lens[p] = k}
                 i    == CHOOSE x \in {p[1] : p \in top} : \A p \in top : x <= p[1]
                 j    == CHOOSE y \in {p[2] : p \in {q \in top : q[1] = i}} :
                             \A p \in {q \in top : q[1] = i} : y <= p[2]
             IN  <<i, j, k>>

RECURSIVE MatchCount(_, _, _, _, _, _)
\* the total size of get_matching_blocks over the two windows
MatchCount(a, alo, ahi, b, blo, bhi) ==
    IF alo > ahi \/ blo > bhi THEN 0
    ELSE LET m == FindLongestMatch(a, alo, ahi, b, blo, bhi)
         IN  IF m[3] = 0 THEN 0
             ELSE m[3]
                  + MatchCount(a, alo, m[1] - 1, b, blo, m[2] - 1)
                  + MatchCount(a, m[1] + m[3], ahi, b, m[2] + m[3], bhi)

Matches(a, b) == MatchCount(a, 1, Len(a), b, 1, Len(b))

\* SequenceMatcher(None, a, b).ratio() > num/den; the ratio is 2*M/T, and
\* 1.0 when both sequences are empty
RatioAbove(a, b, num, den) ==
    IF Len(a) + Len(b) = 0 THEN den > num
    ELSE 2 * Matches(a, b) * den > num * (Len(a) + Len(b))

-----------------------------------------------------------------------------
(* Article (src/news/fetchers.py) and datetime comparison                   *)

\* the float 1.0 of the score arithmetic
One == 40

\* a datetime: wall-clock hours t, and for a timezone-aware value its UTC
\* offset in hours
DateTime(t, aware, off) == [t |-> t, aware |-> aware, off |-> off]

\* Article.__init__: relevance_score starts at 0.0; id is the object identity
Article(id, title, description, url, source, published_at, content) ==
    [id |-> id, title |-> title, description |-> description, url |-> url,
     source |-> source, published_at |-> published_at, content |-> content,
     relevance_score |-> 0]

\* the timezone normalisation left out: the wall clock is compared as it is
get_sort_key_wallclock(article) == article.published_at.t

\* the instant used to compare datetimes: a naive value gets tzinfo=UTC
\* (its wall clock is read as UTC), an aware value is its wall clock minus
\* its offset
get_sort_key(article) ==
    LET dt == article.published_at
    IN  IF dt.aware THEN dt.t - dt.off ELSE dt.t

\* lexicographic order on the pairs used as sort keys
KeyGreater(p, q) == p[1] > q[1] \/ (p[1] = q[1] /\ p[2] > q[2])

\* sorted(s, key=..., reverse=True) and list.sort(key=..., reverse=True), with
\* keys[i] the key of s[i]: descending by key, and elements of equal key keep
\* their relative order (Python's sort is stable, also with reverse=True)
SortedDesc(s, keys) ==
    LET rank(i) == 1 + Cardinality({j \in DOMAIN s :
                        \/ KeyGreater(keys[j], keys[i])
                        \/ keys[j] = keys[i] /\ j < i})
    IN  [r \in DOMAIN s |-> s[CHOOSE i \in DOMAIN s : rank(i) = r]]

-----------------------------------------------------------------------------
(* NewsFetcher (src/news/fetchers.py)                                       *)

\* how many earlier elements of s have the source of s[i]
SourceCountBefore(s, kept, i) ==
    Cardinality({j \in kept : j < i /\ s[j].source = s[i].source})

\* the comparison off by one: a source at the cap is still admitted
UnderCapInclusive(source_count, max_per_source) == source_count <= max_per_source

\* source_count < max_per_source
UnderCap(source_count, max_per_source) == source_count < max_per_source

RECURSIVE LimitLoop(_, _, _, _)
\* the loop of _limit_articles_per_source over sorted_articles from index i;
\* kept is the set of indices appended so far
LimitLoop(s, i, kept, max_per_source) ==
    IF i > Len(s) THEN kept
    ELSE IF UnderCap(SourceCountBefore(s, kept, i), max_per_source)
         THEN LimitLoop(s, i + 1, kept \cup {i}, max_per_source)
         ELSE LimitLoop(s, i + 1, kept, max_per_source)

RECURSIVE Pick(_, _, _)
\* the elements of s at the indices in kept, from index i on, in order
Pick(s, kept, i) ==
    IF i > Len(s) THEN <<>>
    ELSE (IF i \in kept THEN <<s[i]>> ELSE <<>>) \o Pick(s, kept, i + 1)

\* NewsFetcher._limit_articles_per_source
LimitArticlesPerSource(articles, max_per_source) ==
    LET sorted_articles ==
            SortedDesc(articles, [i \in DOMAIN articles |-> <<get_sort_key(articles[i]), 0>>])
    IN  Pick(sorted_articles, LimitLoop(sorted_articles, 1, {}, max_per_source), 1)

\* the cap passed by fetch_all_articles
MaxPerSource == 3


\* bounds on the lists the adapters return
MaxGuardianArticles == 1
MaxRssArticles == 4

\* sequences over S of length at most n
SeqUpTo(S, n) == UNION {[1..k -> S] : k \in 0..n}

Text_news == <<"n","e","w","s">>
Text_TheGuardian == <<"T","h","e"," ","G","u","a","r","d","i","a","n">>
Text_Bbc == <<"B","b","c">>
Text_Wired == <<"W","i","r","e","d">>

\* GuardianFetcher._parse_guardian_article: source "The Guardian" and a
\* timezone-aware publication time (fromisoformat of an offset timestamp)
GuardianShapes == [t : {2, 3}, off : {0, 1}]
GuardianArticles(shapes) ==
    [i \in DOMAIN shapes |->
        Article(i, Text_news, Text_news, <<"g", DigitChar[i]>>, Text_TheGuardian,
                DateTime(shapes[i].t, TRUE, shapes[i].off), <<>>)]

\* RSSFetcher._parse_rss_entry: the source is the feed's name and the
\* publication time is naive (datetime(*entry.published_parsed[:6]))
RssShapes == [t : {1, 2, 3}, source : {Text_Bbc, Text_Wired}]
RssArticles(shapes) ==
    [i \in DOMAIN shapes |->
        Article(100 + i, Text_news, Text_news, <<"r", DigitChar[i]>>, shapes[i].source,
                DateTime(shapes[i].t, FALSE, 0), <<>>)]

Pending == [kind |-> "pending", items |-> <<>>]
Raised == [kind |-> "exception", items |-> <<>>]
Returned(list) == [kind |-> "list", items |-> list]

FetcherIdle ==
    /\ fpc = "gather"
    /\ guardian_result = Pending
    /\ rss_result = Pending
    /\ all_articles = <<>>
    /\ fetched = <<>>

\* ContentFilter.__init__
FilterConstructed(threshold) ==
    /\ min_relevance_score = threshold
    /\ seen_urls = {}
    /\ seen_titles = {}
    /\ filter_calls = 0
    /\ call_articles = <<>>
    /\ call_topics = <<>>
    /\ call_result = <<>>
    /\ repeated = FALSE

\* deduplicate_by_content not called yet
DedupIdle ==
    /\ dpc = "idle"
    /\ dedup_in = <<>>
    /\ dedup_out = <<>>

\* no NewsSummarizer constructed yet
SummarizerIdle ==
    /\ spc = "new"
    /\ api_keys = <<>>
    /\ configured = {}
    /\ sum_articles = <<>>
    /\ max_concurrent = 0
    /\ semaphore = 0
    /\ task_pc = <<>>
    /\ attempts = <<>>
    /\ task_result = <<>>
    /\ summaries = <<>>

\* the two pipeline runs have not started
PipelineIdle ==
    /\ ppc = "idle"
    /\ arrival = <<>>
    /\ arrival_again = <<>>
    /\ pipe_topics = <<>>
    /\ curated = <<>>
    /\ curated_again = <<>>

\* group_summaries_by_category not called yet
GroupIdle ==
    /\ gpc = "idle"
    /\ group_in = <<>>
    /\ grouped = <<>>

\* no NewsFetcher constructed
AdaptersIdle ==
    /\ apc = "new"
    /\ fetcher_keys = <<>>
    /\ adapters_built = {}
    /\ requested = {}
    /\ raw_records = <<>>
    /\ adapter_result = <<>>

\* no NewsScheduler constructed
DigestIdle ==
    /\ digest_pc = "idle"
    /\ digest_runs = 0
    /\ config = <<>>
    /\ run = <<>>

\* the fetcher alone: a filter is constructed and never called
FetchInit ==
    /\ FetcherIdle
    /\ FilterConstructed(24)
    /\ DedupIdle
    /\ SummarizerIdle
    /\ PipelineIdle
    /\ GroupIdle
    /\ DigestIdle
    /\ AdaptersIdle

\* the task self.guardian.fetch_articles(topics, from_date) returns a list
GuardianFetchReturns ==
    /\ fpc = "gather" /\ guardian_result = Pending
    /\ \E shapes \in SeqUpTo(GuardianShapes, MaxGuardianArticles) :
           guardian_result' = Returned(GuardianArticles(shapes))
    /\ UNCHANGED <<fpc, rss_result, all_articles, fetched, filterVars, dedupVars, sumVars, pipeVars, groupVars, digestVars, adapterVars>>

\* the Guardian task raises: gather(return_exceptions=True) keeps the exception
GuardianFetchRaises ==
    /\ fpc = "gather" /\ guardian_result = Pending
    /\ guardian_result' = Raised
    /\ UNCHANGED <<fpc, rss_result, all_articles, fetched, filterVars, dedupVars, sumVars, pipeVars, groupVars, digestVars, adapterVars>>

\* the task self.rss.fetch_articles(sources, from_date) returns a list
RssFetchReturns ==
    /\ fpc = "gather" /\ rss_result = Pending
    /\ \E shapes \in SeqUpTo(RssShapes, MaxRssArticles) :
           rss_result' = Returned(RssArticles(shapes))
    /\ UNCHANGED <<fpc, guardian_result, all_articles, fetched, filterVars, dedupVars, sumVars, pipeVars, groupVars, digestVars, adapterVars>>

\* the RSS task raises
RssFetchRaises ==
    /\ fpc = "gather" /\ rss_result = Pending
    /\ rss_result' = Raised
    /\ UNCHANGED <<fpc, guardian_result, all_articles, fetched, filterVars, dedupVars, sumVars, pipeVars, groupVars, digestVars, adapterVars>>

\* a gather without return_exceptions: one task's exception leaves the
\* try block before any result is merged
FetchAllReturnsNothingOnException ==
    /\ fpc = "gather" /\ guardian_result # Pending /\ rss_result # Pending
    /\ all_articles' = IF Raised \in {guardian_result, rss_result}
                       THEN <<>> ELSE guardian_result.items \o rss_result.items
    /\ fetched' = LimitArticlesPerSource(all_articles', MaxPerSource)
    /\ fpc' = "returned"
    /\ UNCHANGED <<guardian_result, rss_result, filterVars, dedupVars, sumVars, pipeVars, groupVars, digestVars, adapterVars>>

\* fetch_all_articles after the gather: the list results are concatenated in
\* task order, exceptions are logged, and the per-source cap is applied
FetchAllReturns ==
    /\ fpc = "gather" /\ guardian_result # Pending /\ rss_result # Pending
    /\ all_articles' = guardian_result.items \o rss_result.items
    /\ fetched' = LimitArticlesPerSource(all_articles', MaxPerSource)
    /\ fpc' = "returned"
    /\ UNCHANGED <<guardian_result, rss_result, filterVars, dedupVars, sumVars, pipeVars, groupVars, digestVars, adapterVars>>

FetchNext ==
    \/ GuardianFetchReturns
    \/ GuardianFetchRaises
    \/ RssFetchReturns
    \/ RssFetchRaises
    \/ FetchAllReturns

SpecFetch == FetchInit /\ [][FetchNext]_vars

-----------------------------------------------------------------------------
(* Properties of the per-source cap                                        *)

\* how many articles of the sequence s have the source src
SourceCount(s, src) == Cardinality({i \in DOMAIN s : s[i].source = src})

Sources(s) == {s[i].source : i \in DOMAIN s}

Ids(s) == {s[i].id : i \in DOMAIN s}

\* the publication instant in UTC hours, a naive timestamp read as UTC
UtcInstant(article) ==
    IF article.published_at.aware
    THEN article.published_at.t - article.published_at.off
    ELSE article.published_at.t

\* C9: the sequence returned by fetch_all_articles (per-source cap 3) contains
\* no source name more than 3 times
C9_PerSourceCap ==
    fpc = "returned" =>
        \A src \in Sources(fetched) : SourceCount(fetched, src) <= 3

\* a source delivered more than 3 articles and exactly 3 of them were returned
C9_Witness ==
    /\ fpc = "returned"
    /\ \E src \in Sources(all_articles) :
           /\ SourceCount(all_articles, src) > 3
           /\ SourceCount(fetched, src) = 3

\* C10: per source the cap retains the min(N, count) most recently published
\* articles (naive timestamps read as UTC), drops nothing of a source with at
\* most N articles, and returns the articles in descending publication order
C10_MostRecentRetained ==
    fpc = "returned" =>
        /\ \A i \in DOMAIN fetched : \E j \in DOMAIN all_articles : fetched[i] = all_articles[j]
        /\ \A i, j \in DOMAIN fetched : fetched[i].id = fetched[j].id => i = j
        /\ \A src \in Sources(all_articles) :
               SourceCount(fetched, src) =
                   IF SourceCount(all_articles, src) < MaxPerSource
                   THEN SourceCount(all_articles, src) ELSE MaxPerSource
        /\ \A i \in DOMAIN fetched : \A j \in DOMAIN all_articles :
               (/\ all_articles[j].id \notin Ids(fetched)
                /\ all_articles[j].source = fetched[i].source)
               => UtcInstant(fetched[i]) >= UtcInstant(all_articles[j])
        /\ \A i, j \in DOMAIN fetched :
               i < j => UtcInstant(fetched[i]) >= UtcInstant(fetched[j])

\* an article of a capped source was dropped, it is strictly older than one
\* that was kept, and aware and naive timestamps were ordered together
C10_Witness ==
    /\ fpc = "returned"
    /\ \E j \in DOMAIN all_articles : \E i \in DOMAIN fetched :
           /\ all_articles[j].id \notin Ids(fetched)
           /\ all_articles[j].source = fetched[i].source
           /\ UtcInstant(fetched[i]) > UtcInstant(all_articles[j])
    /\ \E i, k \in DOMAIN fetched :
           /\ fetched[i].published_at.aware /\ fetched[i].published_at.off # 0
           /\ ~fetched[k].published_at.aware
           /\ i < k
           /\ fetched[i].published_at.t > fetched[k].published_at.t
           /\ UtcInstant(fetched[i]) = UtcInstant(fetched[k])

\* the lists of the adapter tasks that returned one, in task order
SucceededLists ==
    (IF guardian_result.kind = "list" THEN guardian_result.items ELSE <<>>)
        \o (IF rss_result.kind = "list" THEN rss_result.items ELSE <<>>)

\* C11: when one adapter's fetch task raises, fetch_all_articles still
\* returns, and what it returns is the per-source-capped union of the lists
\* of the adapters that succeeded: every returned article comes from such a
\* list, and a source loses articles only beyond the cap.
C11_FailedAdapterIsolated ==
    (fpc = "returned" /\ Raised \in {guardian_result, rss_result}) =>
        /\ fetched = LimitArticlesPerSource(SucceededLists, MaxPerSource)
        /\ Ids(fetched) \subseteq Ids(SucceededLists)
        /\ \A src \in Sources(SucceededLists) :
               \/ SourceCount(fetched, src) = SourceCount(SucceededLists, src)
               \/ /\ SourceCount(fetched, src) = MaxPerSource
                  /\ SourceCount(SucceededLists, src) > MaxPerSource

\* the Guardian task raised, the RSS task returned four articles of two
\* sources, and the articles of both sources were returned
C11_Witness ==
    /\ fpc = "returned"
    /\ guardian_result = Raised
    /\ rss_result.kind = "list"
    /\ Len(rss_result.items) = 4
    /\ Cardinality(Sources(fetched)) = 2
    /\ Len(fetched) >= 3

-----------------------------------------------------------------------------
(* ContentFilter (src/news/filters.py)                                      *)

\* datetime.now(UTC), in hours
Now == 100

\* "x in seq" for a list of texts
Text_removed == <<"[","r","e","m","o","v","e","d","]">>
Text_deleted == <<"[","d","e","l","e","t","e","d","]">>
Text_sign_up == <<"s","i","g","n"," ","u","p">>
Text_subscribe_now == <<"s","u","b","s","c","r","i","b","e"," ","n","o","w">>
Text_paywall == <<"p","a","y","w","a","l","l">>
suspicious_patterns ==
    {Text_removed, Text_deleted, Text_sign_up, Text_subscribe_now, Text_paywall}

\* f"{a} {b}"
Joined(a, b) == a \o <<" ">> \o b

\* the number of topic words found in text, counted in halves: 2 for "word in
\* text" and 1 more for a match of \bword\w*
TopicMatchesDoubled(topic_words, text) ==
    LET hit(i) == (IF Contains(topic_words[i], text) THEN 2 ELSE 0)
                  + (IF PrefixPatternMatches(topic_words[i], text) THEN 1 ELSE 0)
        sum[i \in 0..Len(topic_words)] == IF i = 0 THEN 0 ELSE sum[i - 1] + hit(i)
    IN  sum[Len(topic_words)]

Min(a, b) == IF a <= b THEN a ELSE b
Max(a, b) == IF a >= b THEN a ELSE b

\* topic_score = min(topic_matches / len(topic_words), 1.0)
TopicScore(topic, text) ==
    LET topic_words == Split(Lower(topic))
    IN  Min((TopicMatchesDoubled(topic_words, text) * One) \div (2 * Len(topic_words)), One)

\* the title boost: +0.2, capped at 1.0, in the loop over the topics
RECURSIVE TitleBoost(_, _, _, _)
TitleBoost(score, topics, i, title_lower) ==
    IF i > Len(topics) THEN score
    ELSE TitleBoost(IF Contains(Lower(topics[i]), title_lower)
                    THEN Min(score + 8, One) ELSE score,
                    topics, i + 1, title_lower)

\* published_at.replace(tzinfo=UTC) for a naive value: the instant, in hours
AsUtc(published_at) ==
    IF published_at.aware THEN published_at.t - published_at.off ELSE published_at.t

\* a recency boost without the cap
RecencyBoostUncapped(score, article) ==
    IF Now - AsUtc(article.published_at) < 12 THEN score + 4 ELSE score

\* the recency boost: +0.1, capped at 1.0, for an article less than 12 hours old
RecencyBoost(score, article) ==
    IF Now - AsUtc(article.published_at) < 12 THEN Min(score + 4, One) ELSE score

\* the first part of _calculate_relevance: the topic scores averaged over
\* the topics that have at least one word
TopicAverage(article, topics) ==
    LET text == Lower(Joined(Joined(article.title, article.description), article.content))
        counted == {i \in DOMAIN topics : Split(Lower(topics[i])) # <<>>}
        sum[i \in 0..Len(topics)] ==
            IF i = 0 THEN 0
            ELSE sum[i - 1] + (IF i \in counted THEN TopicScore(topics[i], text) ELSE 0)
        total_checks == Cardinality(counted)
    IN  IF total_checks > 0 THEN sum[Len(topics)] \div total_checks ELSE 0

\* ContentFilter._calculate_relevance
CalculateRelevance(article, topics) ==
    RecencyBoost(TitleBoost(TopicAverage(article, topics), topics, 1, Lower(article.title)),
                 article)

\* ContentFilter._has_good_content_quality
HasGoodContentQuality(article) ==
    /\ ~(Len(Strip(article.title)) < 10)
    /\ ~(Len(Strip(article.description)) < 20)
    /\ \A pattern \in suspicious_patterns :
           ~Contains(pattern, Lower(Joined(article.title, article.description)))

\* the title under which an accepted article is remembered and compared
NormTitle(article) == Strip(Lower(article.title))

-----------------------------------------------------------------------------
(* The articles and topic lists given to the filter, and filter_articles   *)

\* two titles whose similarity depends on the direction of the comparison
\* (the second with a timezone-aware publication time, the instant 80):
\* ratio("oil as gas", "oil gas as") = 0.9 and ratio("oil gas as", "oil as gas") = 0.7
Article_OilAsGas ==
    Article(1, <<"o","i","l"," ","a","s"," ","g","a","s">>,
            <<"o","i","l"," ","p","r","i","c","e"," ","n","e","w","s"," ","t","o","d","a","y",".">>,
            <<"u","1">>, Text_Bbc, DateTime(95, FALSE, 0), <<>>)
Article_OilGasAs ==
    Article(2, <<"o","i","l"," ","g","a","s"," ","a","s">>,
            <<"g","a","s"," ","p","r","i","c","e"," ","n","e","w","s"," ","t","o","d","a","y",".">>,
            <<"u","2">>, Text_Bbc, DateTime(81, TRUE, 1), <<>>)
\* the title of Article_OilAsGas up to case and surrounding blanks
Article_OilAsGasCaps ==
    Article(3, <<" ","O","i","l"," ","A","s"," ","G","a","s">>,
            <<"o","i","l"," ","p","r","i","c","e"," ","r","i","s","e","s"," ","a","g","a","i","n">>,
            <<"u","3">>, Text_Bbc, DateTime(95, FALSE, 0), <<>>)
\* another story under the URL of Article_OilAsGas
Article_TaxCutDeal ==
    Article(4, <<"t","a","x"," ","c","u","t"," ","d","e","a","l">>,
            <<"o","i","l"," ","p","r","i","c","e"," ","n","e","w","s"," ","t","o","d","a","y",".">>,
            <<"u","1">>, Text_Bbc, DateTime(80, FALSE, 0), <<>>)
\* an article whose description has 20 characters, 16 without the blanks
\* around it
Article_WarInEast ==
    Article(5, <<"w","a","r"," ","i","n"," ","e","a","s","t">>,
            <<" "," ","n","o"," ","t","o","p","i","c"," ","i","n"," ","h","e","r","e"," "," ">>,
            <<"u","5">>, Text_Bbc, DateTime(95, FALSE, 0), <<>>)

\* two stories that carry no link: the RSS adapter gives them the URL ""
Article_OilAsGasNoUrl == [Article_OilAsGas EXCEPT !.id = 6, !.url = <<>>]
Article_TaxCutDealNoUrl == [Article_TaxCutDeal EXCEPT !.id = 7, !.url = <<>>]

FilterPool == {Article_OilAsGas, Article_OilGasAs, Article_OilAsGasCaps,
               Article_TaxCutDeal, Article_WarInEast}

\* bounds on the calls made to one filter
MaxFilterInput == 2
MaxFilterCalls == 2

\* lists of distinct articles of the pool
FilterInputs ==
    {l \in SeqUpTo(FilterPool, MaxFilterInput) : \A i, j \in DOMAIN l : l[i] = l[j] => i = j}

TopicLists == {<<>>, <<<<"o","i","l">>>>, <<<<"o","i","l">>, <<"t","a","x"," ","c","u","t">>>>,
               <<<<"o","i","l">>, <<"g","a","s">>, <<"w","a","r">>, <<"t","a","x">>>>}

\* config.content.min_relevance_score: 0.3 or the default 0.6
FilterThresholds == {12, 24}

\* SequenceMatcher(None, title_lower, seen_title).ratio() > 0.85
TitleSimilar(title_lower, seen_title) == RatioAbove(title_lower, seen_title, 85, 100)

\* The articles of the pool are immutable but for relevance_score, which none
\* of the three computations below reads: each is computed once per article
\* (and topic list) and looked up by the article's id.
KnownArticles == FilterPool \cup {Article_OilAsGasNoUrl, Article_TaxCutDealNoUrl}
PoolArticle(id) == CHOOSE a \in KnownArticles : a.id = id
PoolIds == {a.id : a \in KnownArticles}
PoolTitles == {NormTitle(a) : a \in KnownArticles}
\* the table {<<key, value>>} read at key
Lookup(table, key) == (CHOOSE entry \in table : entry[1] = key)[2]
TitleSimilarOnce == {<<p, TitleSimilar(p[1], p[2])>> : p \in PoolTitles \X PoolTitles}
RelevanceOnce ==
    {<<p, CalculateRelevance(PoolArticle(p[1]), p[2])>> : p \in PoolIds \X TopicLists}
QualityOnce == {<<id, HasGoodContentQuality(PoolArticle(id))>> : id \in PoolIds}
NormTitleOnce == {<<id, NormTitle(PoolArticle(id))>> : id \in PoolIds}

\* ContentFilter._is_duplicate
IsDuplicate(article, urls, titles) ==
    \/ article.url \in urls
    \/ \E seen_title \in titles : Lookup(TitleSimilarOnce, <<Lookup(NormTitleOnce, article.id), seen_title>>)

\* a sort key without the publication time
sort_key_score_only(article) == <<article.relevance_score, 0>>

\* sort_key of filter_articles
sort_key(article) == <<article.relevance_score, AsUtc(article.published_at)>>

RECURSIVE FilterLoop(_, _, _, _, _)
\* the loop of filter_articles from index i; st holds filtered and the two
\* seen sets of the filter object
FilterLoop(articles, i, topics, threshold, st) ==
    IF i > Len(articles) THEN st
    ELSE LET article == articles[i]
             scored  == [article EXCEPT !.relevance_score = Lookup(RelevanceOnce, <<article.id, topics>>)]
         IN  IF IsDuplicate(article, st.seen_urls, st.seen_titles)
             THEN FilterLoop(articles, i + 1, topics, threshold, st)
             ELSE IF scored.relevance_score < threshold
             THEN FilterLoop(articles, i + 1, topics, threshold, st)
             ELSE IF ~Lookup(QualityOnce, article.id)
             THEN FilterLoop(articles, i + 1, topics, threshold, st)
             ELSE FilterLoop(articles, i + 1, topics, threshold,
                     [filtered    |-> Append(st.filtered, scored),
                      seen_urls   |-> st.seen_urls \cup {article.url},
                      seen_titles |-> st.seen_titles \cup {Lookup(NormTitleOnce, article.id)}])

\* ContentFilter.filter_articles on a filter whose seen sets are urls and
\* titles: the returned list and the seen sets it leaves behind
FilterArticles(articles, topics, threshold, urls, titles) ==
    LET st == FilterLoop(articles, 1, topics, threshold,
                         [filtered |-> <<>>, seen_urls |-> urls, seen_titles |-> titles])
    IN  [result      |-> SortedDesc(st.filtered,
                                    [i \in DOMAIN st.filtered |-> sort_key(st.filtered[i])]),
         seen_urls   |-> st.seen_urls,
         seen_titles |-> st.seen_titles]

FilterInit ==
    /\ FetcherIdle
    /\ \E threshold \in FilterThresholds : FilterConstructed(threshold)
    /\ DedupIdle
    /\ SummarizerIdle
    /\ PipelineIdle
    /\ GroupIdle
    /\ DigestIdle
    /\ AdaptersIdle

\* one call of filter_articles on the filter object
FilterCall(articles, topics, again) ==
    LET out == FilterArticles(articles, topics, min_relevance_score, seen_urls, seen_titles)
    IN  /\ filter_calls < MaxFilterCalls
        /\ filter_calls' = filter_calls + 1
        /\ call_articles' = articles
        /\ call_topics' = topics
        /\ call_result' = out.result
        /\ seen_urls' = out.seen_urls
        /\ seen_titles' = out.seen_titles
        /\ repeated' = again
        /\ UNCHANGED <<min_relevance_score, fetchVars, dedupVars, sumVars, pipeVars, groupVars, digestVars, adapterVars>>

\* filter_articles(articles, topics) with fresh arguments
FilterArticlesCalled ==
    \E articles \in FilterInputs : \E topics \in TopicLists :
        FilterCall(articles, topics, FALSE)

\* filter_articles called again with the list the previous call returned and
\* the same topics
FilterArticlesCalledAgain ==
    /\ filter_calls > 0
    /\ FilterCall(call_result, call_topics, TRUE)

FilterNext ==
    \/ FilterArticlesCalled
    \/ FilterArticlesCalledAgain

SpecFilter == FilterInit /\ [][FilterNext]_vars

-----------------------------------------------------------------------------
(* Properties of filter_articles                                           *)

\* C5: filter_articles called again on the same filter with the sequence it
\* just returned (same topics) returns that same sequence
C5_SecondPassKeepsAll ==
    repeated => call_result = call_articles

\* C6: a call dedupes only against articles accepted within that call: its
\* result is what a filter with empty seen sets returns for the same
\* arguments and threshold
C6_ResultDependsOnArgumentsOnly ==
    filter_calls > 0 =>
        call_result = FilterArticles(call_articles, call_topics, min_relevance_score, {}, {}).result

\* C7: in the sequence returned by one call no two articles have the same
\* URL and no two have normalised titles whose similarity ratio is above 0.85
C7_NoNearDuplicatesReturned ==
    filter_calls > 0 =>
        \A i, j \in DOMAIN call_result :
            i # j =>
                /\ call_result[i].url # call_result[j].url
                /\ ~TitleSimilar(NormTitle(call_result[i]), NormTitle(call_result[j]))

\* the relevance score the latest call wrote to an article it scored
ScoreWritten(article) == Lookup(RelevanceOnce, <<article.id, call_topics>>)

\* C14: for every article and every topic list (the empty list, topics of
\* several words, several topics matching the title) the relevance score
\* filter_articles writes to the article lies in [0.0, 1.0]
C14_RelevanceInUnitInterval ==
    filter_calls > 0 =>
        /\ \A i \in DOMAIN call_articles :
               ScoreWritten(call_articles[i]) >= 0 /\ ScoreWritten(call_articles[i]) <= One
        /\ \A j \in DOMAIN call_result :
               call_result[j].relevance_score >= 0 /\ call_result[j].relevance_score <= One

\* a call with four topics returned a recent article whose title holds two
\* of them with score 1.0, and scored another article below the threshold
C14_Witness ==
    /\ filter_calls > 0
    /\ Len(call_topics) = 4
    /\ \E j \in DOMAIN call_result :
           /\ call_result[j].relevance_score = One
           /\ Now - AsUtc(call_result[j].published_at) < 12
    /\ \E i \in DOMAIN call_articles : ScoreWritten(call_articles[i]) < min_relevance_score

\* the topic average of each article of the pool, computed once
TopicAverageOnce ==
    {<<p, TopicAverage(PoolArticle(p[1]), p[2])>> : p \in PoolIds \X TopicLists}

\* the topics that occur verbatim in the lower-cased title
TopicsInTitle(article, topics) ==
    {i \in DOMAIN topics : Contains(Lower(topics[i]), Lower(article.title))}

\* C15: the title boost adds 0.2, capped at 1.0, once when at least one
\* topic occurs verbatim in the title: the score written is the topic
\* average, plus one boost if some topic is in the title, plus the recency
\* boost, however many of the topics the title holds
C15_TitleBoostOnce ==
    filter_calls > 0 =>
        \A i \in DOMAIN call_articles :
            LET article == call_articles[i]
                average == Lookup(TopicAverageOnce, <<article.id, call_topics>>)
                boosted == IF TopicsInTitle(article, call_topics) # {}
                           THEN Min(average + 8, One) ELSE average
            IN  ScoreWritten(article) = RecencyBoost(boosted, article)

\* the article at position i of the latest call's argument is a duplicate
\* (same URL, or title similarity above 0.85) of an article at an earlier
\* position that the call returned
DuplicatesEarlierAccepted(i) ==
    \E j \in 1..(i - 1) :
        /\ call_articles[j].id \in Ids(call_result)
        /\ \/ call_articles[i].url = call_articles[j].url
           \/ Lookup(TitleSimilarOnce, <<Lookup(NormTitleOnce, call_articles[i].id),
                                         Lookup(NormTitleOnce, call_articles[j].id)>>)

\* C16: an article is in the result of a filter_articles call if and only
\* if it is no duplicate of an article accepted earlier in that call, its
\* relevance score is at least the minimum, its trimmed title has at least
\* 10 and its trimmed description at least 20 characters, and title and
\* description hold none of the low-quality markers
C16_AcceptedIffAllTestsPass ==
    filter_calls > 0 =>
        \A i \in DOMAIN call_articles :
            LET article == call_articles[i]
            IN  article.id \in Ids(call_result) <=>
                    /\ ~DuplicatesEarlierAccepted(i)
                    /\ ScoreWritten(article) >= min_relevance_score
                    /\ Len(Strip(article.title)) >= 10
                    /\ Len(Strip(article.description)) >= 20
                    /\ \A pattern \in suspicious_patterns :
                           ~Contains(pattern, Lower(Joined(article.title, article.description)))

\* C17: the sequence filter_articles returns is sorted descending by
\* relevance score and, among articles of equal score, by publication
\* instant, most recent first, a naive timestamp read as UTC
C17_SortedByScoreThenRecency ==
    filter_calls > 0 =>
        \A i, j \in DOMAIN call_result :
            i < j =>
                \/ call_result[i].relevance_score > call_result[j].relevance_score
                \/ /\ call_result[i].relevance_score = call_result[j].relevance_score
                   /\ UtcInstant(call_result[i]) >= UtcInstant(call_result[j])

\* a call received an older article before a more recent one of the same
\* score and returned the more recent one first
C17_Witness ==
    /\ filter_calls > 0
    /\ Len(call_result) = 2
    /\ call_result[1].relevance_score = call_result[2].relevance_score
    /\ UtcInstant(call_result[1]) > UtcInstant(call_result[2])
    /\ call_articles[1].id = call_result[2].id
    /\ call_articles[2].id = call_result[1].id

-----------------------------------------------------------------------------
(* fetch_all_articles followed by filter_articles (src/scheduler.py)       *)

MaxPipelineInput == 4

\* what the adapters can deliver: lists of distinct articles of the pool
PipelineInputs ==
    {l \in SeqUpTo(FilterPool, MaxPipelineInput) : \A i, j \in DOMAIN l : l[i] = l[j] => i = j}

\* the same articles in every order
Reorderings(l) == {[i \in DOMAIN l |-> l[f[i]]] : f \in Permutations(DOMAIN l)}

\* generate_daily_digest up to the first filter_articles call, on a filter
\* that has seen nothing: the per-source cap of fetch_all_articles, then
\* filter_articles
FetchThenFilter(delivered, topics, threshold) ==
    FilterArticles(LimitArticlesPerSource(delivered, MaxPerSource), topics, threshold, {}, {}).result

PipelineInit ==
    /\ FetcherIdle
    /\ \E threshold \in FilterThresholds : FilterConstructed(threshold)
    /\ DedupIdle
    /\ SummarizerIdle
    /\ PipelineIdle
    /\ GroupIdle
    /\ DigestIdle
    /\ AdaptersIdle

\* a first run: the adapters deliver their articles in some order
PipelineRuns ==
    /\ ppc = "idle"
    /\ \E delivered \in PipelineInputs : \E topics \in TopicLists :
        /\ arrival' = delivered
        /\ pipe_topics' = topics
        /\ curated' = FetchThenFilter(delivered, topics, min_relevance_score)
    /\ ppc' = "once"
    /\ UNCHANGED <<arrival_again, curated_again, fetchVars, filterVars, dedupVars, sumVars, groupVars, digestVars, adapterVars>>

\* a second run with a new filter: the adapters deliver the same articles in
\* some order, the same or another
PipelineRunsAgain ==
    /\ ppc = "once"
    /\ \E delivered \in Reorderings(arrival) :
        /\ arrival_again' = delivered
        /\ curated_again' = FetchThenFilter(delivered, pipe_topics, min_relevance_score)
    /\ ppc' = "twice"
    /\ UNCHANGED <<arrival, pipe_topics, curated, fetchVars, filterVars, dedupVars, sumVars, groupVars, digestVars, adapterVars>>

PipelineNext ==
    \/ PipelineRuns
    \/ PipelineRunsAgain

SpecPipeline == PipelineInit /\ [][PipelineNext]_vars

\* C12: fetch_all_articles followed by filter_articles gives the same
\* sequence for every order in which the same set of articles is delivered:
\* the survivors of the cap and of the dedup, and their final order, do not
\* depend on the arrival order, equal publication times and equal scores
\* included.
C12_ArrivalOrderIrrelevant ==
    ppc = "twice" => curated_again = curated

-----------------------------------------------------------------------------
(* ContentFilter.deduplicate_by_content (src/news/filters.py)              *)

\* the first position of the character c in s from position i on, or
\* Len(s) + 1
IndexFrom(s, c, i) ==
    LET at == {p \in i..Len(s) : s[p] \in c}
    IN  IF at = {} THEN Len(s) + 1 ELSE CHOOSE p \in at : \A q \in at : p <= q

\* urllib.parse.urlparse(url): netloc and path of [scheme ":"] ["//" netloc]
\* path ["?" query] ["#" fragment]
UrlParse(url) ==
    LET colon    == IndexFrom(url, {":"}, 1)
        isScheme == /\ colon <= Len(url) /\ colon > 1
                    /\ \A p \in 1..(colon - 1) :
                           url[p] \in Range(LowerCase) \cup Range(UpperCase) \cup Digits \cup {"+", "-", "."}
                    /\ url[1] \in Range(LowerCase) \cup Range(UpperCase)
        rest     == IF isScheme THEN Slice(url, colon + 1, Len(url)) ELSE url
        hasNet   == Len(rest) >= 2 /\ rest[1] = "/" /\ rest[2] = "/"
        netEnd   == IndexFrom(rest, {"/", "?", "#"}, 3)
        afterNet == IF hasNet THEN Slice(rest, netEnd, Len(rest)) ELSE rest
    IN  [netloc |-> IF hasNet THEN Slice(rest, 3, netEnd - 1) ELSE <<>>,
         path   |-> Slice(afterNet, 1, IndexFrom(afterNet, {"?", "#"}, 1) - 1)]

RECURSIVE SplitOn(_, _, _)
\* s.split(c) from position i on: the pieces between the separators
SplitOn(s, c, i) ==
    LET stop == IndexFrom(s, {c}, i)
    IN  IF stop > Len(s) THEN <<Slice(s, i, Len(s))>>
        ELSE <<Slice(s, i, stop - 1)>> \o SplitOn(s, c, stop + 1)

\* ContentFilter._same_story_different_source
SameStoryDifferentSource(url1, url2) ==
    LET parsed1 == UrlParse(url1)
        parsed2 == UrlParse(url2)
        parts(path) == {part \in Range(SplitOn(path, "/", 1)) : Len(part) > 3}
    IN  /\ parsed1.netloc # parsed2.netloc
        /\ Cardinality(parts(parsed1.path) \cap parts(parsed2.path)) >= 2

\* ContentFilter._are_similar_articles
AreSimilarArticles(article1, article2) ==
    \/ RatioAbove(Lower(article1.title), Lower(article2.title), 85, 100)
    \/ /\ article1.description # <<>> /\ article2.description # <<>>
       /\ RatioAbove(Lower(article1.description), Lower(article2.description), 80, 100)
    \/ SameStoryDifferentSource(article1.url, article2.url)

\* the stories given to deduplicate_by_content: Story_C has the title of
\* Story_A and the description of Story_B, Story_D is Story_A's path on
\* another host
Story_A ==
    Article(11, <<"a","l","p","h","a">>, <<"r","e","d"," ","o","n","e">>,
            <<"h","t","t","p","s",":","/","/","a",".","c","o","m","/","n","e","w","s","/","o","i","l","-","s","t","o","r","y">>,
            Text_Bbc, DateTime(95, FALSE, 0), <<>>)
Story_B ==
    Article(12, <<"b","r","a","v","o">>, <<"b","l","u","e"," ","t","w","o">>,
            <<"h","t","t","p","s",":","/","/","a",".","c","o","m","/","x">>,
            Text_Bbc, DateTime(95, FALSE, 0), <<>>)
Story_C ==
    Article(13, <<"a","l","p","h","a">>, <<"b","l","u","e"," ","t","w","o">>,
            <<"h","t","t","p","s",":","/","/","a",".","c","o","m","/","y">>,
            Text_Bbc, DateTime(95, FALSE, 0), <<>>)
Story_D ==
    Article(14, <<"d","e","l","t","a">>, <<>>,
            <<"h","t","t","p","s",":","/","/","b",".","c","o","m","/","n","e","w","s","/","o","i","l","-","s","t","o","r","y">>,
            Text_Bbc, DateTime(95, FALSE, 0), <<>>)

DedupPool == {Story_A, Story_B, Story_C, Story_D}
Story(id) == CHOOSE a \in DedupPool : a.id = id

\* relevance scores 0.3, 0.6 and 1.0
DedupScores == {12, 24, 40}

\* _are_similar_articles does not read relevance_score: computed once per
\* pair of stories and looked up by id
SimilarOnce ==
    {<<p, AreSimilarArticles(Story(p[1]), Story(p[2]))>> :
        p \in {a.id : a \in DedupPool} \X {a.id : a \in DedupPool}}

\* list.remove(existing_article) at position k
RemoveAt(s, k) == SubSeq(s, 1, k - 1) \o SubSeq(s, k + 1, Len(s))

\* on a duplicate pair the current article replaces the existing one when
\* current_article.relevance_score > existing_article.relevance_score
Replaces(current_article, existing_article) ==
    current_article.relevance_score > existing_article.relevance_score

RECURSIVE DedupLoop(_, _, _)
\* the loop of deduplicate_by_content from index i: the inner loop stops at
\* the first existing article similar to the current one
DedupLoop(articles, i, unique_articles) ==
    IF i > Len(articles) THEN unique_articles
    ELSE LET current_article == articles[i]
             hits == {k \in DOMAIN unique_articles :
                         Lookup(SimilarOnce, <<current_article.id, unique_articles[k].id>>)}
         IN  IF hits = {}
             THEN DedupLoop(articles, i + 1, Append(unique_articles, current_article))
             ELSE LET k == CHOOSE h \in hits : \A g \in hits : h <= g
                  IN  IF Replaces(current_article, unique_articles[k])
                      THEN DedupLoop(articles, i + 1,
                                     Append(RemoveAt(unique_articles, k), current_article))
                      ELSE DedupLoop(articles, i + 1, unique_articles)

\* ContentFilter.deduplicate_by_content
DeduplicateByContent(articles) ==
    IF Len(articles) <= 1 THEN articles ELSE DedupLoop(articles, 1, <<>>)

\* bound on the list given to deduplicate_by_content
MaxDedupInput == 3

\* lists of distinct stories, each with a relevance score already assigned
DedupInputs ==
    {l \in SeqUpTo([story : DedupPool, score : DedupScores], MaxDedupInput) :
        \A i, j \in DOMAIN l : l[i].story = l[j].story => i = j}

DedupInit ==
    /\ FetcherIdle
    /\ FilterConstructed(24)
    /\ DedupIdle
    /\ SummarizerIdle
    /\ PipelineIdle
    /\ GroupIdle
    /\ DigestIdle
    /\ AdaptersIdle

\* deduplicate_by_content(articles)
DeduplicateByContentCalled ==
    /\ dpc = "idle"
    /\ \E l \in DedupInputs :
           /\ dedup_in' = [i \in DOMAIN l |-> [l[i].story EXCEPT !.relevance_score = l[i].score]]
           /\ dedup_out' = DeduplicateByContent(dedup_in')
    /\ dpc' = "returned"
    /\ UNCHANGED <<fetchVars, filterVars, sumVars, pipeVars, groupVars, digestVars, adapterVars>>

DedupNext == DeduplicateByContentCalled

SpecDedup == DedupInit /\ [][DedupNext]_vars

\* C8: after deduplicate_by_content no two retained articles are the same
\* story under its pairwise test
C8_NoSimilarPairRetained ==
    dpc = "returned" =>
        \A i, j \in DOMAIN dedup_out :
            i # j => ~Lookup(SimilarOnce, <<dedup_out[i].id, dedup_out[j].id>>)

-----------------------------------------------------------------------------
(* ArticleSummary and the three backends (src/ai/summarizer.py)            *)

\* ArticleSummary.__init__; built_by records which code path constructed it:
\* a backend's response parser or a _fallback_summary
ArticleSummary(article, brief_summary, key_points, category, importance_score, built_by) ==
    [article |-> article, brief_summary |-> brief_summary, key_points |-> key_points,
     category |-> category, importance_score |-> importance_score, built_by |-> built_by]

\* one key point: a line of the response, or a generated line of the given kind
KeyPoint(kind, text) == [kind |-> kind, text |-> text]

\* article.description[:200] + "..." if len(article.description) > 200 else
\* article.description
TruncatedDescription(article) ==
    IF Len(article.description) > 200
    THEN SubSeq(article.description, 1, 200) \o <<".", ".", ".">>
    ELSE article.description

Text_General == <<"G","e","n","e","r","a","l">>

\* the keyword table of _simple_categorize, in dictionary order
categories ==
    <<
    [category |-> <<"T","e","c","h","n","o","l","o","g","y">>,
     keywords |-> {<<"t","e","c","h">>,
                  <<"a","i">>,
                  <<"s","o","f","t","w","a","r","e">>,
                  <<"d","i","g","i","t","a","l">>,
                  <<"c","o","m","p","u","t","e","r">>,
                  <<"i","n","t","e","r","n","e","t">>,
                  <<"a","p","p">>}],
    [category |-> <<"S","c","i","e","n","c","e">>,
     keywords |-> {<<"r","e","s","e","a","r","c","h">>,
                  <<"s","t","u","d","y">>,
                  <<"s","c","i","e","n","t","i","s","t">>,
                  <<"d","i","s","c","o","v","e","r","y">>,
                  <<"c","l","i","m","a","t","e">>,
                  <<"s","p","a","c","e">>}],
    [category |-> <<"B","u","s","i","n","e","s","s">>,
     keywords |-> {<<"c","o","m","p","a","n","y">>,
                  <<"b","u","s","i","n","e","s","s">>,
                  <<"m","a","r","k","e","t">>,
                  <<"e","c","o","n","o","m","y">>,
                  <<"f","i","n","a","n","c","i","a","l">>,
                  <<"s","t","o","c","k">>}],
    [category |-> <<"H","e","a","l","t","h">>,
     keywords |-> {<<"h","e","a","l","t","h">>,
                  <<"m","e","d","i","c","a","l">>,
                  <<"h","o","s","p","i","t","a","l">>,
                  <<"d","i","s","e","a","s","e">>,
                  <<"t","r","e","a","t","m","e","n","t">>,
                  <<"v","a","c","c","i","n","e">>}],
    [category |-> <<"P","o","l","i","t","i","c","s">>,
     keywords |-> {<<"g","o","v","e","r","n","m","e","n","t">>,
                  <<"p","o","l","i","t","i","c","a","l">>,
                  <<"e","l","e","c","t","i","o","n">>,
                  <<"p","r","e","s","i","d","e","n","t">>,
                  <<"c","o","n","g","r","e","s","s">>,
                  <<"p","o","l","i","c","y">>}],
    [category |-> <<"S","p","o","r","t","s">>,
     keywords |-> {<<"s","p","o","r","t">>,
                  <<"g","a","m","e">>,
                  <<"t","e","a","m">>,
                  <<"p","l","a","y","e","r">>,
                  <<"c","h","a","m","p","i","o","n","s","h","i","p">>,
                  <<"o","l","y","m","p","i","c">>}] >>

\* _simple_categorize: the first category one of whose keywords occurs in
\* the lower-cased title and description, else "General"
SimpleCategorize(article) ==
    LET text == Lower(Joined(article.title, article.description))
        hits == {i \in DOMAIN categories :
                    \E keyword \in categories[i].keywords : Contains(keyword, text)}
    IN  IF hits = {} THEN Text_General
        ELSE categories[CHOOSE i \in hits : \A j \in hits : i <= j].category

\* the articles summarised in this model, as the filter scored them
Digest_Software ==
    [Article(21, <<"n","e","w"," ","s","o","f","t","w","a","r","e">>,
             <<"a","n"," ","a","p","p"," ","f","o","r"," ","a","l","l",".">>,
             <<"s", DigitChar[1]>>, Text_Bbc, DateTime(95, FALSE, 0), <<>>)
     EXCEPT !.relevance_score = 12]

Digest_Market ==
    [Article(22, <<"m","a","r","k","e","t"," ","f","a","l","l","s">>,
             <<"s","t","o","c","k"," ","s","l","i","d","e",".">>,
             <<"s", DigitChar[2]>>, Text_Bbc, DateTime(95, FALSE, 0), <<>>)
     EXCEPT !.relevance_score = 40]

Digest_Frost ==
    [Article(23, <<"c","o","l","d"," ","s","n","a","p">>,
             <<"f","r","o","s","t"," ","o","n"," ","m","o","n","d","a","y">>,
             <<"s", DigitChar[3]>>, Text_Bbc, DateTime(95, FALSE, 0), <<>>)
     EXCEPT !.relevance_score = 40]

SummaryPool == {Digest_Software, Digest_Market, Digest_Frost}

\* _simple_categorize of each article of the pool, computed once
CategoryTable == {<<article.id, SimpleCategorize(article)>> : article \in SummaryPool}
CategoryOnce(article) == Lookup(CategoryTable, article.id)

\* a fallback that used the parsers' default importance 0.5 instead
FallbackSummaryDefaultImportance(article) ==
    ArticleSummary(article.id, TruncatedDescription(article),
                   <<KeyPoint("Source", article.source),
                     KeyPoint("Published %Y-%m-%d %H:%M", <<>>),
                     KeyPoint("Full article available at source link", <<>>)>>,
                   CategoryOnce(article), 20, "fallback")

\* GeminiSummarizer._fallback_summary and NewsSummarizer._fallback_summary
\* (the two bodies are the same): importance is the article's relevance score
FallbackSummary(article) ==
    ArticleSummary(article.id, TruncatedDescription(article),
                   <<KeyPoint("Source", article.source),
                     KeyPoint("Published %Y-%m-%d %H:%M", <<>>),
                     KeyPoint("Full article available at source link", <<>>)>>,
                   CategoryOnce(article), article.relevance_score, "fallback")

\* A response text is its sequence of stripped lines, each line split into
\* its label ("SUMMARY:", "KEY_POINTS:", "CATEGORY:", "IMPORTANCE:", "bullet"
\* for a line starting with a bullet mark, "text" for any other non-empty
\* line, "blank") and the stripped rest.  The rest of an IMPORTANCE line is a
\* number in fortieths, or not a float literal.
Line(label, rest) == [label |-> label, rest |-> rest, number |-> 0, is_float |-> FALSE]
ImportanceLine(number) ==
    [label |-> "IMPORTANCE:", rest |-> <<>>, number |-> number, is_float |-> TRUE]
ImportanceLineNotFloat ==
    [label |-> "IMPORTANCE:", rest |-> <<"a", "b", "c">>, number |-> 0, is_float |-> FALSE]

\* max(0.0, min(1.0, importance_score))
Clamp(importance_score) == Max(0, Min(One, importance_score))

\* the state of the parsing loop before the first line
ParseStart ==
    [summary |-> <<>>, key_points |-> <<>>, category |-> Text_General,
     importance_score |-> 20, current_section |-> "none"]

\* the importance read from an IMPORTANCE line by _parse_openai_response:
\* float(...) with 0.5 on ValueError
ImportanceOpenAI(line) == IF line.is_float THEN line.number ELSE 20

\* the importance read by _parse_gemini_response: the float clamped to
\* [0.0, 1.0], 0.5 on ValueError
ImportanceGemini(line) == IF line.is_float THEN Clamp(line.number) ELSE 20

\* one step of the loop of _parse_openai_response
ParseLineOpenAI(st, line) ==
    CASE line.label = "SUMMARY:" ->
            [st EXCEPT !.summary = line.rest, !.current_section = "summary"]
      [] line.label = "KEY_POINTS:" ->
            [st EXCEPT !.current_section = "key_points",
                       !.key_points = IF line.rest # <<>>
                                      THEN Append(@, KeyPoint("line", line.rest)) ELSE @]
      [] line.label = "CATEGORY:" -> [st EXCEPT !.category = line.rest]
      [] line.label = "IMPORTANCE:" -> [st EXCEPT !.importance_score = ImportanceOpenAI(line)]
      [] line.label = "bullet" ->
            IF st.current_section = "key_points"
            THEN [st EXCEPT !.key_points = Append(@, KeyPoint("line", line.rest))] ELSE st
      [] line.label = "text" ->
            IF st.current_section = "key_points"
            THEN [st EXCEPT !.key_points = Append(@, KeyPoint("line", line.rest))] ELSE st
      [] OTHER -> st

\* one step of the loop of _parse_gemini_response: bullets also count before
\* any section has started
ParseLineGemini(st, line) ==
    CASE line.label = "SUMMARY:" ->
            [st EXCEPT !.summary = line.rest, !.current_section = "summary"]
      [] line.label = "KEY_POINTS:" ->
            [st EXCEPT !.current_section = "key_points",
                       !.key_points = IF line.rest # <<>>
                                      THEN Append(@, KeyPoint("line", line.rest)) ELSE @]
      [] line.label = "CATEGORY:" -> [st EXCEPT !.category = line.rest]
      [] line.label = "IMPORTANCE:" -> [st EXCEPT !.importance_score = ImportanceGemini(line)]
      [] line.label = "bullet" ->
            IF st.current_section \in {"key_points", "none"}
            THEN [st EXCEPT !.key_points = Append(@, KeyPoint("line", line.rest))] ELSE st
      [] line.label = "text" ->
            IF st.current_section = "key_points"
            THEN [st EXCEPT !.key_points = Append(@, KeyPoint("line", line.rest))] ELSE st
      [] OTHER -> st

RECURSIVE ParseLines(_, _, _, _)
\* the parsing loop over lines from index i on, for the given backend
ParseLines(lines, i, st, backend) ==
    IF i > Len(lines) THEN st
    ELSE ParseLines(lines, i + 1,
                    IF backend = "gemini" THEN ParseLineGemini(st, lines[i])
                    ELSE ParseLineOpenAI(st, lines[i]),
                    backend)

\* the end of both parsers: defaults for a missing summary and missing key
\* points, then the ArticleSummary
ParsedSummary(article, st, backend) ==
    ArticleSummary(article.id,
                   IF st.summary = <<>> THEN TruncatedDescription(article) ELSE st.summary,
                   IF st.key_points = <<>>
                   THEN <<KeyPoint("Source", article.source), KeyPoint("Published %Y-%m-%d", <<>>)>>
                   ELSE st.key_points,
                   st.category, st.importance_score, backend)

\* what the backend's API call produced: an exception, no text (None), or a
\* response text
ApiRaised == [raised |-> TRUE, is_none |-> FALSE, lines |-> <<>>]
ApiNone == [raised |-> FALSE, is_none |-> TRUE, lines |-> <<>>]
ApiText(lines) == [raised |-> FALSE, is_none |-> FALSE, lines |-> lines]

\* The result of a backend's summarize_article is a sequence: the summary it
\* returns, or the empty sequence when it raises.

\* GeminiSummarizer.summarize_article: every exception, of the API call or
\* of the parser, ends in the class's own _fallback_summary
GeminiSummarizeArticle(article, api) ==
    IF api.raised \/ api.is_none
    THEN <<FallbackSummary(article)>>
    ELSE <<ParsedSummary(article, ParseLines(api.lines, 1, ParseStart, "gemini"), "gemini")>>

\* OpenAISummarizer.summarize_article: the except branch calls
\* self._fallback_summary, which the class does not define, so a failure
\* leaves the method as an AttributeError
OpenAISummarizeArticle(article, api) ==
    IF api.raised \/ api.is_none
    THEN <<>>
    ELSE <<ParsedSummary(article, ParseLines(api.lines, 1, ParseStart, "openai"), "openai")>>

\* AnthropicSummarizer.summarize_article: _parse_anthropic_response calls
\* self._parse_openai_response and the except branch self._fallback_summary;
\* the class defines neither, so the method raises whatever the API did
AnthropicSummarizeArticle(article, api) == <<>>

SummarizeArticle(backend, article, api) ==
    CASE backend = "gemini" -> GeminiSummarizeArticle(article, api)
      [] backend = "openai" -> OpenAISummarizeArticle(article, api)
      [] backend = "anthropic" -> AnthropicSummarizeArticle(article, api)

-----------------------------------------------------------------------------
(* NewsSummarizer.summarize_articles as a state machine                    *)

MaxSummarizeInput == 3
MaxConcurrent == 2

\* the article lists handed to summarize_articles: distinct articles in any
\* order, the empty list included
SummaryInputs ==
    {articles \in SeqUpTo(SummaryPool, MaxSummarizeInput) :
        \A i, j \in DOMAIN articles : i # j => articles[i].id # articles[j].id}


\* a response in the format the prompt asks for, importance 0.7
Response_Full ==
    <<Line("SUMMARY:", <<"s">>), Line("KEY_POINTS:", <<>>), Line("bullet", <<"p">>),
      Line("bullet", <<"q">>), Line("CATEGORY:", <<"S","c","i","e","n","c","e">>), ImportanceLine(28)>>
\* a bullet before any section, a summary, importance 5.0
Response_TooHigh ==
    <<Line("bullet", <<"p">>), Line("SUMMARY:", <<"s">>), ImportanceLine(200)>>
\* prose and importance -1.0
Response_Negative ==
    <<Line("text", <<"q">>), Line("blank", <<>>), ImportanceLine(0 - 40)>>
\* an inline key point, a continuation line, an importance that is no number
Response_NotFloat ==
    <<Line("KEY_POINTS:", <<"p">>), Line("text", <<"q">>), ImportanceLineNotFloat>>

ResponseTexts == {Response_Full, Response_TooHigh, Response_Negative, Response_NotFloat}

ApiReturns == {ApiNone} \cup {ApiText(lines) : lines \in ResponseTexts}

Backends == {"gemini", "openai", "anthropic"}

\* the order in which summarize_single tries the backends
Chain == <<"gemini", "openai", "anthropic">>

ChainIndex(backend) == CHOOSE k \in DOMAIN Chain : Chain[k] = backend

\* a chain that starts over at its first configured backend once the last one
\* has failed
NextBackendRestartsChain(k) ==
    LET later == {j \in DOMAIN Chain : j > k /\ Chain[j] \in configured}
        any == {j \in DOMAIN Chain : Chain[j] \in configured}
    IN  Chain[CHOOSE j \in (IF later = {} THEN any ELSE later) :
                  \A h \in (IF later = {} THEN any ELSE later) : j <= h]

\* the first configured backend after position k of the chain, "none" if
\* there is none: the `if self.<backend>_summarizer:` tests of summarize_single
NextBackend(k) ==
    LET later == {j \in DOMAIN Chain : j > k /\ Chain[j] \in configured}
    IN  IF later = {} THEN "none"
        ELSE Chain[CHOOSE j \in later : \A h \in later : j <= h]

\* an acquire that does not wait at value 0
CanAcquireAtZero(value) == value >= 0

\* asyncio.Semaphore.acquire proceeds only while the value is positive
CanAcquire(value) == value > 0

SummarizerInit ==
    /\ FetcherIdle
    /\ FilterConstructed(24)
    /\ DedupIdle
    /\ SummarizerIdle
    /\ PipelineIdle
    /\ GroupIdle
    /\ DigestIdle
    /\ AdaptersIdle

\* The key arguments: each one a key, or absent as None or as the empty
\* string (what an unset configuration entry gives).
ApiKeys ==
    {[backend \in Backends |-> IF backend \in present THEN "key" ELSE absent] :
        present \in SUBSET Backends, absent \in {"None", ""}}

\* the truth value of a key in `Summarizer(key) if key else None`
Truthy(key) == key \notin {"None", ""}

\* a constructor that builds the Gemini backend whatever its key is
SummarizersBuiltGeminiAlways(keys) ==
    {backend \in Backends : Truthy(keys[backend]) \/ backend = "gemini"}

\* the summarizer attributes NewsSummarizer.__init__ sets to an object
SummarizersBuilt(keys) == {backend \in Backends : Truthy(keys[backend])}

\* NewsSummarizer.__init__ with at least one backend built
NewsSummarizerConstructed ==
    /\ spc = "new"
    /\ \E keys \in ApiKeys :
        /\ SummarizersBuilt(keys) # {}
        /\ api_keys' = keys
        /\ configured' = SummarizersBuilt(keys)
    /\ spc' = "ready"
    /\ UNCHANGED <<sum_articles, max_concurrent, semaphore, task_pc, attempts,
                   task_result, summaries, fetchVars, filterVars, dedupVars, pipeVars, groupVars, digestVars, adapterVars>>

\* NewsSummarizer.__init__ with no backend built: ValueError
NewsSummarizerRejected ==
    /\ spc = "new"
    /\ \E keys \in ApiKeys :
        /\ SummarizersBuilt(keys) = {}
        /\ api_keys' = keys
        /\ configured' = SummarizersBuilt(keys)
    /\ spc' = "config_error"
    /\ UNCHANGED <<sum_articles, max_concurrent, semaphore, task_pc,
                   attempts, task_result, summaries, fetchVars, filterVars, dedupVars, pipeVars, groupVars, digestVars, adapterVars>>

\* summarize_articles up to the await of asyncio.gather: an empty list
\* returns at once, otherwise the semaphore and one task per article exist
SummarizeArticlesCalled ==
    /\ spc = "ready"
    /\ \E articles \in SummaryInputs, limit \in 0..MaxConcurrent :
        /\ sum_articles' = articles
        /\ max_concurrent' = limit
        /\ IF articles = <<>>
           THEN /\ spc' = "returned"
                /\ UNCHANGED <<semaphore, task_pc, attempts, task_result>>
           ELSE /\ spc' = "running"
                /\ semaphore' = limit
                /\ task_pc' = [i \in DOMAIN articles |-> "waiting"]
                /\ attempts' = [i \in DOMAIN articles |-> <<>>]
                /\ task_result' = [i \in DOMAIN articles |-> <<>>]
    /\ UNCHANGED <<api_keys, configured, summaries, fetchVars, filterVars, dedupVars, pipeVars, groupVars, digestVars, adapterVars>>

\* `async with semaphore:` entered by task i, which then runs to the API
\* call of the first configured backend
SemaphoreAcquired(i) ==
    /\ spc = "running"
    /\ task_pc[i] = "waiting"
    /\ CanAcquire(semaphore)
    /\ semaphore' = semaphore - 1
    /\ task_pc' = [task_pc EXCEPT ![i] = NextBackend(0)]
    /\ UNCHANGED <<spc, api_keys, configured, sum_articles, max_concurrent, attempts,
                   task_result, summaries, fetchVars, filterVars, dedupVars, pipeVars, groupVars, digestVars, adapterVars>>

\* The API call task i awaits completes with api.  The backend's
\* summarize_article finishes; if it raised, summarize_single goes on to the
\* next configured backend's API call, or to NewsSummarizer._fallback_summary
\* when none is left.  Returning leaves the `async with` and releases the
\* semaphore.
BackendCompleted(i, api) ==
    LET backend == task_pc[i]
        article == sum_articles[i]
        result == SummarizeArticle(backend, article, api)
        next == NextBackend(ChainIndex(backend))
        summary == IF result # <<>> THEN result[1] ELSE FallbackSummary(article)
    IN  /\ attempts' = [attempts EXCEPT ![i] =
                Append(@, [backend |-> backend, api |-> api, raised |-> result = <<>>])]
        /\ IF result = <<>> /\ next # "none"
           THEN /\ task_pc' = [task_pc EXCEPT ![i] = next]
                /\ UNCHANGED <<semaphore, task_result>>
           ELSE /\ task_pc' = [task_pc EXCEPT ![i] = "done"]
                /\ task_result' = [task_result EXCEPT ![i] = <<summary>>]
                /\ semaphore' = semaphore + 1
        /\ UNCHANGED <<spc, api_keys, configured, sum_articles, max_concurrent, summaries,
                       fetchVars, filterVars, dedupVars, pipeVars, groupVars, digestVars, adapterVars>>

\* the API call returns a response object
BackendCallReturns ==
    /\ spc = "running"
    /\ \E i \in DOMAIN task_pc, api \in ApiReturns :
        /\ task_pc[i] \in Backends
        /\ BackendCompleted(i, api)

\* the API call raises
BackendCallRaises ==
    /\ spc = "running"
    /\ \E i \in DOMAIN task_pc :
        /\ task_pc[i] \in Backends
        /\ BackendCompleted(i, ApiRaised)

\* the concatenation of the sequences results[i], i in DOMAIN results
RECURSIVE Flatten(_)
Flatten(results) ==
    IF results = <<>> THEN <<>>
    ELSE Flatten(SubSeq(results, 1, Len(results) - 1)) \o results[Len(results)]

\* the result of the tasks as gather lists it, left unsorted
UnsortedByImportance(valid_summaries) == valid_summaries

\* a descending sort that puts summaries of equal importance in the reverse of
\* their input order (an ascending sort, reversed)
SortByImportanceTiesReversed(valid_summaries) ==
    SortedDesc(valid_summaries,
               [i \in DOMAIN valid_summaries |-> <<valid_summaries[i].importance_score, i>>])

\* valid_summaries.sort(key=lambda x: x.importance_score, reverse=True)
SortByImportance(valid_summaries) ==
    SortedDesc(valid_summaries,
               [i \in DOMAIN valid_summaries |-> <<valid_summaries[i].importance_score, 0>>])

\* asyncio.gather returns once every task is done; the ArticleSummary
\* results are kept, sorted by importance and returned
GatherReturns ==
    /\ spc = "running"
    /\ \A i \in DOMAIN task_pc : task_pc[i] = "done"
    /\ summaries' = SortByImportance(Flatten(task_result))
    /\ spc' = "returned"
    /\ UNCHANGED <<api_keys, configured, sum_articles, max_concurrent, semaphore, task_pc,
                   attempts, task_result, fetchVars, filterVars, dedupVars, pipeVars, groupVars, digestVars, adapterVars>>

SummarizerNext ==
    \/ NewsSummarizerConstructed
    \/ NewsSummarizerRejected
    \/ SummarizeArticlesCalled
    \/ \E i \in DOMAIN task_pc : SemaphoreAcquired(i)
    \/ BackendCallReturns
    \/ BackendCallRaises
    \/ GatherReturns

SpecSummarizer == SummarizerInit /\ [][SummarizerNext]_vars

-----------------------------------------------------------------------------
(* Properties of summarize_articles                                        *)

\* the backends whose API call task i has issued so far
Called(i) ==
    {attempts[i][k].backend : k \in DOMAIN attempts[i]} \cup ({task_pc[i]} \cap Backends)

\* the backends whose API call raised in task i
CallFailed(i) ==
    {attempts[i][k].backend : k \in {h \in DOMAIN attempts[i] : attempts[i][h].api.raised}}

\* task i gave the deterministic fallback summary to gather
GaveFallback(i) == task_result[i] # <<>> /\ task_result[i][1].built_by = "fallback"

\* the tasks inside `async with semaphore`
Holding == {i \in DOMAIN task_pc : task_pc[i] \in Backends}

\* every API call completed so far raised
EveryCallRaised ==
    \A i \in DOMAIN attempts : \A k \in DOMAIN attempts[i] : attempts[i][k].api.raised

\* C1: for every article, when the call to a configured backend fails the
\* next configured backend of the chain gemini, openai, anthropic is called
\* for that article, and the fallback summary is produced only after every
\* configured backend has been called for that article and has failed.
C1_FallbackOnlyAfterWholeChain ==
    \A i \in DOMAIN task_pc :
        /\ \A backend \in CallFailed(i) :
              NextBackend(ChainIndex(backend)) \in Called(i) \cup {"none"}
        /\ GaveFallback(i) =>
              \A backend \in configured :
                  \E k \in DOMAIN attempts[i] : attempts[i][k].backend = backend

\* C2: when every call to every configured backend raises, summarize_articles
\* returns as many summaries as it was given articles, each article owned by
\* exactly one summary, and that summary is built by the fallback with the
\* article's relevance score as importance; for every configuration.
C2_AllRaiseGivesOneFallbackEach ==
    (spc = "returned" /\ EveryCallRaised) =>
        /\ Len(summaries) = Len(sum_articles)
        /\ \A i \in DOMAIN sum_articles :
            /\ Cardinality({j \in DOMAIN summaries :
                               summaries[j].article = sum_articles[i].id}) = 1
            /\ \A j \in DOMAIN summaries :
                  summaries[j].article = sum_articles[i].id =>
                      /\ summaries[j].built_by = "fallback"
                      /\ summaries[j].importance_score = sum_articles[i].relevance_score

\* three articles summarised with openai and anthropic configured, every
\* call of both backends raised for every article, and the result came back
\* in another order than the input
C2_Witness ==
    /\ spc = "returned"
    /\ configured = {"openai", "anthropic"}
    /\ Len(sum_articles) = 3
    /\ EveryCallRaised
    /\ \A i \in DOMAIN attempts : Len(attempts[i]) = 2
    /\ Len(summaries) = 3
    /\ summaries[1].article # sum_articles[1].id

\* C3: every summary summarize_articles returns has an importance score in
\* [0.0, 1.0], whichever backend produced it and whatever number the
\* response's IMPORTANCE line holds.
C3_ImportanceInUnitInterval ==
    \A j \in DOMAIN summaries :
        summaries[j].importance_score >= 0 /\ summaries[j].importance_score <= One

\* C4: at every moment the number of tasks holding the semaphore is at most
\* max_concurrent.
C4_AtMostMaxConcurrentHolding ==
    spc \in {"running", "returned"} => Cardinality(Holding) <= max_concurrent

\* two tasks hold a semaphore of two, the third task waits for it
C4_Witness ==
    /\ spc = "running"
    /\ max_concurrent = 2
    /\ Cardinality(Holding) = 2
    /\ \E i \in DOMAIN task_pc : task_pc[i] = "waiting"

\* the response has a line with this label
HasLine(lines, label) == \E n \in DOMAIN lines : lines[n].label = label

\* C13: for every backend and every response text its API call returns,
\* summarize_article does not raise; the summary it returns takes a missing
\* summary from the description, missing key points from source and date,
\* and an unparsable importance as 0.5.
C13_ParsingNeverPropagates ==
    \A i \in DOMAIN attempts : \A k \in DOMAIN attempts[i] :
        LET attempt == attempts[i][k]
            lines == attempt.api.lines
            article == sum_articles[i]
        IN  (~attempt.api.raised /\ ~attempt.api.is_none) =>
                /\ ~attempt.raised
                /\ task_result[i] # <<>>
                /\ task_result[i][1].built_by = attempt.backend
                /\ ~HasLine(lines, "SUMMARY:") =>
                       task_result[i][1].brief_summary = TruncatedDescription(article)
                /\ (\A label \in {"KEY_POINTS:", "bullet", "text"} : ~HasLine(lines, label)) =>
                       task_result[i][1].key_points =
                           <<KeyPoint("Source", article.source), KeyPoint("Published %Y-%m-%d", <<>>)>>
                /\ (\E n \in DOMAIN lines : lines[n].label = "IMPORTANCE:" /\ ~lines[n].is_float) =>
                       task_result[i][1].importance_score = 20

-----------------------------------------------------------------------------
(* NewsSummarizer.group_summaries_by_category                               *)

MaxGroupInput == 3

Text_Technology == <<"T","e","c","h","n","o","l","o","g","y">>

\* summaries of five articles: three labelled Technology, two of them
\* equally important, and two labelled General of equal importance
GroupPool ==
    {ArticleSummary(31, <<>>, <<>>, Text_Technology, 12, "openai"),
     ArticleSummary(32, <<>>, <<>>, Text_Technology, 200, "openai"),
     ArticleSummary(33, <<>>, <<>>, Text_Technology, 200, "openai"),
     ArticleSummary(34, <<>>, <<>>, Text_General, 20, "fallback"),
     ArticleSummary(35, <<>>, <<>>, Text_General, 20, "gemini")}

\* lists of distinct summaries, in any order
GroupInputs ==
    {l \in SeqUpTo(GroupPool, MaxGroupInput) : \A i, j \in DOMAIN l : l[i] = l[j] => i = j}

\* a bucket that holds only the latest summary of its category
BucketLatestOnly(summary_list, category) ==
    LET members == SelectSeq(summary_list, LAMBDA summary : summary.category = category)
    IN  <<members[Len(members)]>>

\* grouped[category] after the first loop: the summary_list of that category in
\* input order
Bucket(summary_list, category) ==
    SelectSeq(summary_list, LAMBDA summary : summary.category = category)

\* NewsSummarizer.group_summaries_by_category
GroupSummariesByCategory(summary_list) ==
    [category \in {summary_list[i].category : i \in DOMAIN summary_list} |->
        SortByImportance(Bucket(summary_list, category))]

GroupInit ==
    /\ FetcherIdle
    /\ FilterConstructed(24)
    /\ DedupIdle
    /\ SummarizerIdle
    /\ PipelineIdle
    /\ gpc = "idle"
    /\ group_in \in GroupInputs
    /\ grouped = <<>>
    /\ DigestIdle
    /\ AdaptersIdle

GroupSummariesByCategoryCalled ==
    /\ gpc = "idle"
    /\ grouped' = GroupSummariesByCategory(group_in)
    /\ gpc' = "returned"
    /\ UNCHANGED <<group_in, fetchVars, filterVars, dedupVars, sumVars, pipeVars,
                   digestVars, adapterVars>>

GroupNext == GroupSummariesByCategoryCalled

SpecGroup == GroupInit /\ [][GroupNext]_vars

\* how often the summary occurs in the list
Occurs(summary, list) == Cardinality({n \in DOMAIN list : list[n] = summary})

\* C18: group_summaries_by_category places every summary in exactly one
\* group, the one keyed by the summary's own category: nothing in a group
\* that was not given, nothing given missing or twice, and no group empty
C18_EachSummaryInItsOwnGroupOnce ==
    gpc = "returned" =>
        /\ \A i \in DOMAIN group_in :
               /\ group_in[i].category \in DOMAIN grouped
               /\ \A category \in DOMAIN grouped :
                      Occurs(group_in[i], grouped[category]) =
                          IF category = group_in[i].category THEN 1 ELSE 0
        /\ \A category \in DOMAIN grouped :
               /\ grouped[category] # <<>>
               /\ \A n \in DOMAIN grouped[category] :
                      \E i \in DOMAIN group_in : grouped[category][n] = group_in[i]

\* three summaries of two categories were grouped into two groups
C18_Witness ==
    /\ gpc = "returned"
    /\ Len(group_in) = 3
    /\ Cardinality(DOMAIN grouped) = 2
    /\ \E category \in DOMAIN grouped : Len(grouped[category]) = 2

\* the position of the summary in the list
PositionIn(summary, list) == CHOOSE n \in DOMAIN list : list[n] = summary

\* C19: within every group the summaries are in descending importance order,
\* and summaries of equal importance keep the relative order of the input
C19_GroupsSortedStable ==
    gpc = "returned" =>
        \A category \in DOMAIN grouped :
            \A m, n \in DOMAIN grouped[category] :
                m < n =>
                    LET first == grouped[category][m]
                        second == grouped[category][n]
                    IN  \/ first.importance_score > second.importance_score
                        \/ /\ first.importance_score = second.importance_score
                           /\ PositionIn(first, group_in) < PositionIn(second, group_in)

\* a group of three was reordered by importance, and its two summaries of
\* equal importance came out in input order
C19_Witness ==
    /\ gpc = "returned"
    /\ Len(group_in) = 3
    /\ \E category \in DOMAIN grouped :
           /\ Len(grouped[category]) = 3
           /\ grouped[category] # group_in
           /\ grouped[category][1].importance_score = grouped[category][2].importance_score
           /\ PositionIn(grouped[category][1], group_in) < PositionIn(grouped[category][2], group_in)

\* C20: the sequence summarize_articles returns is sorted descending by
\* importance score, in whatever order the summarization tasks completed
C20_SummariesSortedByImportance ==
    spc = "returned" =>
        \A i, j \in DOMAIN summaries :
            i < j => summaries[i].importance_score >= summaries[j].importance_score

\* three articles were summarised two at a time by a backend, and the
\* summary of the first article was not returned first
C20_Witness ==
    /\ spc = "returned"
    /\ max_concurrent = 2
    /\ Len(summaries) = 3
    /\ summaries[1].article # sum_articles[1].id
    /\ summaries[1].importance_score > summaries[3].importance_score
    /\ \E j \in DOMAIN summaries : summaries[j].built_by # "fallback"


-----------------------------------------------------------------------------
(* Backend calls per article                                               *)

\* how many times task i has called `backend`: the calls that completed and
\* the one it is awaiting
CallCount(i, backend) ==
    Cardinality({k \in DOMAIN attempts[i] : attempts[i][k].backend = backend})
    + (IF task_pc[i] = backend THEN 1 ELSE 0)

\* C21: during summarize_articles every backend is called at most once per
\* article and only configured backends are called; a call that failed is
\* not repeated, and a task that has its result (the chain was exhausted or a
\* backend answered) awaits no backend.
C21_BackendCalledAtMostOnce ==
    spc \in {"running", "returned"} =>
        \A i \in DOMAIN task_pc :
            /\ \A backend \in Backends :
                /\ CallCount(i, backend) <= 1
                /\ CallCount(i, backend) = 1 => backend \in configured
            /\ task_pc[i] = "done" => Len(attempts[i]) <= Cardinality(configured)

\* two backends were called for one article, both calls failed, and the run
\* returned
C21_Witness ==
    /\ spc = "returned"
    /\ \E i \in DOMAIN task_pc :
        /\ Len(attempts[i]) = 2
        /\ \A k \in DOMAIN attempts[i] : attempts[i][k].raised
        /\ attempts[i][1].backend # attempts[i][2].backend


-----------------------------------------------------------------------------
(* Termination of summarize_articles                                       *)

\* The event loop runs every task that can run: a task waiting for a
\* semaphore that has a free slot is woken, an API call that was issued
\* completes (by returning or by raising), and gather returns once all tasks
\* are done.
SpecSummarizerLive ==
    /\ SpecSummarizer
    /\ WF_vars(\E i \in DOMAIN task_pc : SemaphoreAcquired(i))
    /\ WF_vars(BackendCallReturns \/ BackendCallRaises)
    /\ WF_vars(GatherReturns)

\* C29: summarize_articles eventually returns, for every article list and
\* every max_concurrent >= 0, when every backend call completes.
C29_SummarizeArticlesReturns == (spc = "running") ~> (spc = "returned")

-----------------------------------------------------------------------------
(* Construction of NewsSummarizer                                          *)

\* C23: NewsSummarizer.__init__ fails with the configuration error exactly
\* when none of the three keys is provided (each is None or empty), and a
\* successful construction configures exactly the backends whose key is
\* provided.
C23_ConfigErrorIffNoKey ==
    spc # "new" =>
        /\ spc = "config_error" <=> \A backend \in Backends : api_keys[backend] # "key"
        /\ spc # "config_error" =>
               configured = {backend \in Backends : api_keys[backend] = "key"}

\* constructed with the OpenAI and Anthropic keys and an empty Gemini key
C23_Witness ==
    /\ spc = "ready"
    /\ api_keys = [openai |-> "key", anthropic |-> "key", gemini |-> ""]
    /\ configured = {"openai", "anthropic"}

-----------------------------------------------------------------------------
(* NewsScheduler.generate_daily_digest (src/scheduler.py)                  *)

\* bounds on the runs of one scheduler and on the fetched lists
MaxDigestRuns == 2
MaxDigestInput == 2

\* config.content.min_relevance_score: 0.2, 0.3 and the default 0.6 (no
\* score of the pool equals one of these or a threshold lowered from them)
DigestThresholds == {8, 12, 24}

\* config.topics
DigestTopics == {<<<<"o","i","l">>, <<"t","a","x"," ","c","u","t">>>>,
                 <<<<"o","i","l">>, <<"g","a","s">>, <<"w","a","r">>, <<"t","a","x">>>>}

\* the configurations a scheduler is constructed with
DigestConfigs ==
    [topics : DigestTopics, min_relevance_score : DigestThresholds,
     min_articles : 1..2, max_articles : 0..2]

DigestPool == {Article_OilAsGas, Article_OilGasAs, Article_TaxCutDeal,
               Article_OilAsGasNoUrl, Article_TaxCutDealNoUrl}

\* what fetch_all_articles can return: lists of distinct articles as the
\* per-source cap leaves them, newest first
DigestInputs ==
    {LimitArticlesPerSource(l, MaxPerSource) :
        l \in {m \in SeqUpTo(DigestPool, MaxDigestInput) :
                  \A i, j \in DOMAIN m : m[i] = m[j] => i = j}}

\* max(0.3, self.content_filter.min_relevance_score - 0.2)
LoweredThreshold(score) == Max(12, score - 8)

\* the statements of generate_daily_digest inside its try block, by the
\* collaborator they call
InsideTry == {"fetch", "filter", "summarize", "group", "send"}

\* a run that has just started: nothing fetched, filtered, delivered or
\* notified yet; start_threshold is the filter's minimum score at that moment
RunStarted ==
    [start_threshold |-> min_relevance_score, fetched |-> <<>>,
     first_threshold |-> -1, first_pass |-> <<>>,
     retried |-> FALSE, retry_threshold |-> -1, retry_pass |-> <<>>,
     selected |-> <<>>, summarizer_invoked |-> FALSE,
     deliveries |-> <<>>, notifications |-> 0, failure |-> "none", escaped |-> FALSE]

\* email_sender.send_newsletter(summary_list, category_groups) returning ok
Delivered(r, summary_list, category_groups, ok) ==
    [r EXCEPT !.deliveries = Append(@, [summaries |-> summary_list,
                                         categories |-> category_groups, ok |-> ok])]

\* _send_empty_digest: the empty pair is sent and the outcome is only logged
SendEmptyDigest(r, ok) == Delivered(r, <<>>, <<>>, ok)

\* _send_error_notification: one attempt, its own failure only logged
SendErrorNotification(r) == [r EXCEPT !.notifications = @ + 1]

\* an exception raised by a statement of the given stage: the handler of the
\* try block logs it and attempts the error notification
ExceptionRaised(r, stage) ==
    IF stage \in InsideTry
    THEN SendErrorNotification([r EXCEPT !.failure = stage])
    ELSE [r EXCEPT !.failure = stage, !.escaped = TRUE]

\* the first filter_articles call of a run
FirstPass(articles) ==
    FilterArticles(articles, config.topics, min_relevance_score, seen_urls, seen_titles)

\* the filtering of generate_daily_digest after its first filter_articles
\* call returned `first`: when that is fewer than min_articles articles the
\* threshold of the filter is lowered and filter_articles runs again on the
\* same fetched articles
FilterPasses(articles, first) ==
    LET lowered == LoweredThreshold(min_relevance_score)
        second == FilterArticles(articles, config.topics, lowered,
                                 first.seen_urls, first.seen_titles)
    IN  IF Len(first.result) < config.min_articles
        THEN [first_pass |-> first.result, retried |-> TRUE,
              retry_threshold |-> lowered, retry_pass |-> second.result,
              filtered |-> second.result, threshold |-> lowered,
              seen_urls |-> second.seen_urls, seen_titles |-> second.seen_titles]
        ELSE [first_pass |-> first.result, retried |-> FALSE,
              retry_threshold |-> -1, retry_pass |-> <<>>,
              filtered |-> first.result, threshold |-> min_relevance_score,
              seen_urls |-> first.seen_urls, seen_titles |-> first.seen_titles]

\* filtered_articles[:max_articles]
Truncated(filtered, max_articles) == SubSeq(filtered, 1, Min(Len(filtered), max_articles))

\* what summarize_articles can hand back for the selected articles: one
\* summary per article, most important first, or nothing
SummaryLists(selected) ==
    {<<>>,
     SortByImportance([i \in DOMAIN selected |->
         ArticleSummary(selected[i].id, selected[i].description, <<>>, Text_General,
                        selected[i].relevance_score, "fallback")])}

\* NewsScheduler.__init__: the content filter gets the configured minimum
DigestInit ==
    /\ FetcherIdle
    /\ DedupIdle
    /\ SummarizerIdle
    /\ PipelineIdle
    /\ GroupIdle
    /\ AdaptersIdle
    /\ digest_pc = "idle"
    /\ digest_runs = 0
    /\ config \in DigestConfigs
    /\ FilterConstructed(config.min_relevance_score)
    /\ run = RunStarted

\* a run from its start to its first await after the fetch: fetch_all_articles
\* returns, and either the empty digest is sent and the run ends, or the
\* articles are filtered, cut to max_articles and handed to the summarizer
DigestFetchReturns ==
    /\ digest_pc = "idle"
    /\ digest_runs < MaxDigestRuns
    /\ digest_runs' = digest_runs + 1
    /\ \E articles \in DigestInputs, ok \in BOOLEAN :
       \E first \in {FirstPass(articles)} :
       \E passes \in {FilterPasses(articles, first)} :
       \E selected \in {Truncated(passes.filtered, config.max_articles)} :
        LET filtering == [RunStarted EXCEPT
                             !.fetched = articles,
                             !.first_threshold = min_relevance_score,
                             !.first_pass = passes.first_pass,
                             !.retried = passes.retried,
                             !.retry_threshold = passes.retry_threshold,
                             !.retry_pass = passes.retry_pass,
                             !.selected = selected]
        IN  IF articles = <<>>
            THEN /\ run' = SendEmptyDigest([RunStarted EXCEPT !.fetched = articles], ok)
                 /\ digest_pc' = "idle"
                 /\ UNCHANGED filterVars
            ELSE /\ min_relevance_score' = passes.threshold
                 /\ seen_urls' = passes.seen_urls
                 /\ seen_titles' = passes.seen_titles
                 /\ filter_calls' = filter_calls + (IF passes.retried THEN 2 ELSE 1)
                 /\ call_articles' = articles
                 /\ call_topics' = config.topics
                 /\ call_result' = passes.filtered
                 /\ repeated' = FALSE
                 /\ IF selected = <<>>
                    THEN /\ run' = SendEmptyDigest(filtering, ok)
                         /\ digest_pc' = "idle"
                    ELSE /\ ok
                         /\ run' = [filtering EXCEPT !.summarizer_invoked = TRUE]
                         /\ digest_pc' = "summarizing"
    /\ UNCHANGED <<config, fetchVars, dedupVars, sumVars, pipeVars, groupVars, adapterVars>>

\* fetch_all_articles raises, or it returns articles and filter_articles
\* raises on the first of them: the run ends in the exception handler
DigestFetchOrFilterRaises ==
    /\ digest_pc = "idle"
    /\ digest_runs < MaxDigestRuns
    /\ digest_runs' = digest_runs + 1
    /\ \/ run' = ExceptionRaised(RunStarted, "fetch")
       \/ \E articles \in DigestInputs \ {<<>>} :
            run' = ExceptionRaised([RunStarted EXCEPT
                                       !.fetched = articles,
                                       !.first_threshold = min_relevance_score],
                                   "filter")
    /\ digest_pc' = "idle"
    /\ UNCHANGED <<config, fetchVars, filterVars, dedupVars, sumVars, pipeVars, groupVars, adapterVars>>

\* summarize_articles returns: the summaries are grouped and sent, and a
\* send that reports failure is followed by the error notification
DigestSummariesReturned ==
    /\ digest_pc = "summarizing"
    /\ \E summary_list \in SummaryLists(run.selected), ok \in BOOLEAN :
        LET sent == Delivered(run, summary_list, GroupSummariesByCategory(summary_list), ok)
        IN  run' = IF ok THEN sent
                   ELSE SendErrorNotification([sent EXCEPT !.failure = "send"])
    /\ digest_pc' = "idle"
    /\ UNCHANGED <<digest_runs, config, fetchVars, filterVars, dedupVars, sumVars,
                   pipeVars, groupVars, adapterVars>>

\* summarize_articles or group_summaries_by_category raises
DigestSummarizeOrGroupRaises ==
    /\ digest_pc = "summarizing"
    /\ \E stage \in {"summarize", "group"} : run' = ExceptionRaised(run, stage)
    /\ digest_pc' = "idle"
    /\ UNCHANGED <<digest_runs, config, fetchVars, filterVars, dedupVars, sumVars,
                   pipeVars, groupVars, adapterVars>>

DigestNext ==
    \/ DigestFetchReturns
    \/ DigestFetchOrFilterRaises
    \/ DigestSummariesReturned
    \/ DigestSummarizeOrGroupRaises

SpecDigest == DigestInit /\ [][DigestNext]_vars

\* the latest run has ended
RunEnded == digest_runs > 0 /\ digest_pc = "idle"

\* C22: generate_daily_digest lets no exception escape; a run in which
\* fetching, filtering, summarizing, grouping or sending failed ends with an
\* error notification attempted; and a run that fetched no article, or in
\* which no article survived the filtering, hands the delivery exactly the
\* empty pair and does not invoke the summarizer.
C22_NoEscapeAndEmptyDigest ==
    RunEnded =>
        /\ ~run.escaped
        /\ (\/ run.failure # "none"
            \/ \E n \in DOMAIN run.deliveries : ~run.deliveries[n].ok)
               => run.notifications >= 1
        /\ (run.failure = "none" /\ run.selected = <<>>)
               => /\ ~run.summarizer_invoked
                  /\ Len(run.deliveries) = 1
                  /\ run.deliveries[1].summaries = <<>>
                  /\ run.deliveries[1].categories = <<>>


\* the ids of the articles of a list
ArticleIds(list) == {list[n].id : n \in DOMAIN list}

\* C26: when the first filter pass returned fewer than min_articles articles
\* and the filter ran again with the lowered threshold, every article of the
\* first pass is in the result of the second pass, which is therefore not
\* shorter.
C26_RetryKeepsFirstPass ==
    (digest_runs > 0 /\ run.retried) =>
        /\ ArticleIds(run.first_pass) \subseteq ArticleIds(run.retry_pass)
        /\ Len(run.retry_pass) >= Len(run.first_pass)

\* C27: the threshold of the retry pass is never higher than the threshold
\* of the first pass.
C27_RetryThresholdNotHigher ==
    (digest_runs > 0 /\ run.retried) => run.retry_threshold <= run.first_threshold

\* C28: at the start of every run the content filter's minimum relevance
\* score is the configured min_relevance_score.
C28_ThresholdResetEachRun ==
    digest_runs > 0 => run.start_threshold = config.min_relevance_score

\* C30: in the first filter_articles call of a new filter, two fetched
\* articles that both have an empty URL, have dissimilar titles, reach the
\* threshold and pass the quality check are both accepted.
C30_EmptyUrlIsNoIdentity ==
    (digest_runs = 1 /\ run.failure = "none") =>
        \A i, j \in DOMAIN run.fetched :
            (/\ i < j
             /\ run.fetched[i].url = <<>> /\ run.fetched[j].url = <<>>
             /\ ~Lookup(TitleSimilarOnce, <<NormTitle(run.fetched[i]), NormTitle(run.fetched[j])>>)
             /\ ~Lookup(TitleSimilarOnce, <<NormTitle(run.fetched[j]), NormTitle(run.fetched[i])>>)
             /\ \A k \in {i, j} :
                    /\ Lookup(RelevanceOnce, <<run.fetched[k].id, config.topics>>) >= run.first_threshold
                    /\ Lookup(QualityOnce, run.fetched[k].id))
            => {run.fetched[i].id, run.fetched[j].id} \subseteq ArticleIds(run.first_pass)

-----------------------------------------------------------------------------
(* NewsFetcher.__init__, the adapters' fetch_articles and their parsers     *)
(* (src/news/fetchers.py)                                                   *)

\* bound on the records one source answers with
MaxRawRecords == 1

\* the adapters that take an API key, and all adapters
KeyedAdapters == {"newsapi", "guardian", "eventregistry"}
Adapters == KeyedAdapters \cup {"rss"}

\* the key arguments: each a key or None
FetcherKeys == [KeyedAdapters -> {"None", "key"}]

\* the attributes NewsFetcher.__init__ sets to an adapter object: NewsAPI and
\* Event Registry only with a key, Guardian and RSS always
AdaptersBuilt(keys) ==
    {adapter \in {"newsapi", "eventregistry"} : Truthy(keys[adapter])} \cup {"guardian", "rss"}

\* the tasks fetch_all_articles creates
TasksCreated == {"guardian", "rss"}

\* a text entry of a raw record: missing, or present with its text
Absent == [has |-> FALSE, text |-> <<>>]
Present(text) == [has |-> TRUE, text |-> text]
TextFields == {Absent, Present(Text_news)}

\* dict.get(key, default)
Get(field, default) == IF field.has THEN field.text ELSE default

\* a timestamp entry: missing, a string that is no ISO timestamp, an ISO
\* string, or (RSS) a parsed time struct; t in hours
NoTime == [kind |-> "absent", t |-> 0]
IsoFields == {NoTime, [kind |-> "malformed", t |-> 0], [kind |-> "iso", t |-> 90]}
StructFields == {NoTime, [kind |-> "struct", t |-> 70], [kind |-> "struct", t |-> 90]}

\* datetime.fromisoformat(data[key].replace("Z", "+00:00")): the aware
\* datetime, or <<>> where it raises (KeyError, ValueError)
FromIsoFormat(field) == IF field.kind = "iso" THEN <<DateTime(field.t, TRUE, 0)>> ELSE <<>>

Text_Unknown == <<"U","n","k","n","o","w","n">>

\* the records of the three sources
NewsapiRecords == [publishedAt : IsoFields, title : TextFields, url : TextFields]
GuardianRecords ==
    [webPublicationDate : IsoFields, headline : TextFields, webTitle : TextFields,
     webUrl : TextFields]
RssEntries ==
    [published_parsed : StructFields, updated_parsed : {NoTime, [kind |-> "struct", t |-> 90]},
     title : TextFields, link : TextFields]

\* NewsAPIFetcher._parse_newsapi_article: <<article>>, or <<>> for None
ParseNewsapiArticle(id, data) ==
    LET published_at == FromIsoFormat(data.publishedAt)
    IN  IF published_at = <<>> THEN <<>>
        ELSE <<Article(id, Get(data.title, <<>>), <<>>, Get(data.url, <<>>),
                       Text_Unknown, published_at[1], <<>>)>>

\* GuardianFetcher._parse_guardian_article
ParseGuardianArticle(id, data) ==
    LET published_at == FromIsoFormat(data.webPublicationDate)
    IN  IF published_at = <<>> THEN <<>>
        ELSE <<Article(id, Get(data.headline, Get(data.webTitle, <<>>)), <<>>,
                       Get(data.webUrl, <<>>), Text_TheGuardian, published_at[1], <<>>)>>

\* RSSFetcher._parse_rss_entry: the time is published_parsed, else
\* updated_parsed, else datetime.now(); entries older than from_date are
\* dropped
ParseRssEntry(id, entry, from_date) ==
    LET published_at ==
            IF entry.published_parsed.kind = "struct" THEN entry.published_parsed.t
            ELSE IF entry.updated_parsed.kind = "struct" THEN entry.updated_parsed.t
            ELSE Now
    IN  IF published_at < from_date THEN <<>>
        ELSE <<Article(id, Get(entry.title, <<>>), <<>>, Get(entry.link, <<>>),
                       Text_Bbc, DateTime(published_at, FALSE, 0), <<>>)>>

\* the loops `article = parse(record); if article: articles.append(article)`
NewsapiArticles(records) ==
    Flatten([i \in DOMAIN records |-> ParseNewsapiArticle(i, records[i])])
GuardianParsed(records) ==
    Flatten([i \in DOMAIN records |-> ParseGuardianArticle(i, records[i])])
\* from_date defaults to datetime.now() - timedelta(days=1)
RssParsed(entries) ==
    Flatten([i \in DOMAIN entries |-> ParseRssEntry(i, entries[i], Now - 24)])

AdaptersInit ==
    /\ FetcherIdle
    /\ FilterConstructed(24)
    /\ DedupIdle
    /\ SummarizerIdle
    /\ PipelineIdle
    /\ GroupIdle
    /\ DigestIdle
    /\ AdaptersIdle

\* NewsFetcher.__init__
NewsFetcherConstructed ==
    /\ apc = "new"
    /\ \E keys \in FetcherKeys :
        /\ fetcher_keys' = keys
        /\ adapters_built' = AdaptersBuilt(keys)
    /\ apc' = "constructed"
    /\ raw_records' = [adapter \in Adapters |-> <<>>]
    /\ adapter_result' = [adapter \in Adapters |-> <<>>]
    /\ UNCHANGED <<requested, fetchVars, filterVars, dedupVars, sumVars, pipeVars,
                   groupVars, digestVars>>

\* NewsAPIFetcher.fetch_articles called on the adapter object (one topic):
\* the request is sent, and the records of a 200 response are parsed
NewsapiFetchArticlesCalled ==
    /\ apc = "constructed"
    /\ "newsapi" \in adapters_built
    /\ "newsapi" \notin requested
    /\ \E status \in {200, 401}, records \in SeqUpTo(NewsapiRecords, MaxRawRecords) :
        /\ raw_records' = [raw_records EXCEPT !["newsapi"] = records]
        /\ adapter_result' = [adapter_result EXCEPT !["newsapi"] =
                IF status = 200 THEN NewsapiArticles(records) ELSE <<>>]
    /\ requested' = requested \cup {"newsapi"}
    /\ UNCHANGED <<apc, fetcher_keys, adapters_built, fetchVars, filterVars, dedupVars,
                   sumVars, pipeVars, groupVars, digestVars>>

\* fetch_all_articles with one topic and one feed: the Guardian task sends
\* its request (with the api-key parameter only if there is a key) and parses
\* the records of a 200 response; the RSS task reads the feed and parses its
\* entries
FetchAllArticlesCalled ==
    /\ apc = "constructed"
    /\ \E status \in {200, 401},
          records \in SeqUpTo(GuardianRecords, MaxRawRecords),
          entries \in SeqUpTo(RssEntries, MaxRawRecords) :
        /\ raw_records' = [raw_records EXCEPT !["guardian"] = records, !["rss"] = entries]
        /\ adapter_result' = [adapter_result EXCEPT
                !["guardian"] = IF status = 200 THEN GuardianParsed(records) ELSE <<>>,
                !["rss"] = RssParsed(entries)]
    /\ requested' = requested \cup TasksCreated
    /\ apc' = "returned"
    /\ UNCHANGED <<fetcher_keys, adapters_built, fetchVars, filterVars, dedupVars,
                   sumVars, pipeVars, groupVars, digestVars>>

AdaptersNext ==
    \/ NewsFetcherConstructed
    \/ NewsapiFetchArticlesCalled
    \/ FetchAllArticlesCalled

SpecAdapters == AdaptersInit /\ [][AdaptersNext]_vars

\* C24: an adapter whose API key is absent is skipped by fetch_all_articles:
\* it sends no request and contributes no article (and the run returns).
C24_KeylessAdapterSkipped ==
    apc = "returned" =>
        \A adapter \in KeyedAdapters :
            ~Truthy(fetcher_keys[adapter]) =>
                /\ adapter \notin requested
                /\ adapter_result[adapter] = <<>>

\* the timestamp entry of the record an article was parsed from
RecordTime(adapter, record) ==
    CASE adapter = "newsapi" -> record.publishedAt
      [] adapter = "guardian" -> record.webPublicationDate
      [] OTHER -> IF record.published_parsed.kind = "struct"
                  THEN record.published_parsed ELSE record.updated_parsed

\* C25: every article an adapter's fetch returned has a non-empty title, a
\* non-empty URL and the publication time of its record; records without one
\* of these are dropped.
C25_ReturnedArticlesWellFormed ==
    apc # "new" =>
        \A adapter \in Adapters :
            \A n \in DOMAIN adapter_result[adapter] :
                LET article == adapter_result[adapter][n]
                    time == RecordTime(adapter, raw_records[adapter][article.id])
                IN  /\ article.title # <<>>
                    /\ article.url # <<>>
                    /\ time.kind \in {"iso", "struct"}
                    /\ article.published_at.t = time.t

=============================================================================
